---- MODULE Spec2Model ----
(***************************************************************************)
(* Authorization-gated memory store / forget of openclaw-memory-graphiti.  *)
(*                                                                         *)
(* Two plugin processes (one per configured subject) share one SpiceDB     *)
(* engine and one Graphiti server.  Every await of a handler is a step     *)
(* boundary: the request is issued by the step that reaches the await and  *)
(* its effect and result are applied by the step that resumes after it.    *)
(*                                                                         *)
(* Identifiers: a client tracking uuid (randomUUID) is <<"trk", c>>, a     *)
(* server-assigned episode uuid is <<"srv", n>>; random uuids are taken    *)
(* not to collide.  A group id is a sequence of tokens whose first token   *)
(* "session-" stands for that literal prefix.                              *)
(***************************************************************************)
EXTENDS Integers, Sequences, FiniteSets, TLC

\* ------------------------------------------------------------------------
\* Bounds
\* ------------------------------------------------------------------------
MaxCalls == 2
MaxForgetCalls == 1
MaxForgets == 1
MaxTime == 1
MaxTimerLateMs == 3
MaxListMs == 3
MaxWrites == 2
MaxReads == 2
MaxToolCalls == 3
uuidPollMaxAttempts == 2

\* ------------------------------------------------------------------------
\* Program constants
\* ------------------------------------------------------------------------
uuidPollIntervalMs == 2000

\* the poll configuration of the client's tests
TestPollMaxAttempts == 3
TestPollIntervalMs == 10

\* ------------------------------------------------------------------------
\* Values
\* ------------------------------------------------------------------------
\* undefined / null / "" of an identifier-valued variable
None == <<>>

Pi == [type |-> "agent", id |-> <<"pi">>]
Rex == [type |-> "person", id |-> <<"rex">>]

\* cfg.subjectType / cfg.subjectId of each running plugin process
Procs == {Pi, Rex}

\* the processes configured with autoRecall / autoCapture, whose hooks are
\* therefore registered; the others never learn a session key
Hooked == {Pi}

Calls == 1..MaxCalls

\* the store invocations that run beside a memory_forget
ForgetCalls == 1..MaxForgetCalls

\* the SpiceDB writes and the authorization reads of one process
WriteIds == 1..MaxWrites
ReadIds == 1..MaxReads

\* the tool calls made on one GraphitiClient
ToolCalls == 1..MaxToolCalls

\* ctx.sessionKey values delivered by the host (":" is not a legal group char)
SessionKeys == {<<"a", ":">>}

defaultGroupId == <<"main">>

\* characters Graphiti accepts in a group id: [a-zA-Z0-9_-]
GroupChars == {"a", "-", "_"}

sessionGroupId(sessionId) ==
    <<"session-">> \o [i \in 1..Len(sessionId) |->
                          IF sessionId[i] \in GroupChars THEN sessionId[i] ELSE "-"]

isSessionGroup(groupId) == Len(groupId) > 0 /\ groupId[1] = "session-"

\* group_id arguments a caller of memory_store may pass (None: omitted)
GroupIdArgs == {None, <<"session-", "a", "-">>}

\* involves arguments a caller of memory_store may pass (person ids)
InvolvesArgs == {{}, {<<"rex">>}}

\* ------------------------------------------------------------------------
\* SpiceDB: relationship tuples and the schema's permissions
\* ------------------------------------------------------------------------
Tuple(rt, rid, rel, st, sid) ==
    [resourceType |-> rt, resourceId |-> rid, relation |-> rel,
     subjectType |-> st, subjectId |-> sid]

\* schema: group { relation member; permission access = member
\*                 permission contribute = member }
\*         memory_fragment { permission view = involves + shared_by + source_group->access
\*                           permission delete = shared_by }
HasPermission(rs, rt, rid, permission, s) ==
    IF rt = "group" /\ permission \in {"access", "contribute"}
    THEN Tuple("group", rid, "member", s.type, s.id) \in rs
    ELSE IF rt = "memory_fragment" /\ permission = "delete"
    THEN Tuple("memory_fragment", rid, "shared_by", s.type, s.id) \in rs
    ELSE IF rt = "memory_fragment" /\ permission = "view"
    THEN \/ Tuple("memory_fragment", rid, "involves", s.type, s.id) \in rs
         \/ Tuple("memory_fragment", rid, "shared_by", s.type, s.id) \in rs
         \/ \E t \in rs : /\ t.resourceType = "memory_fragment"
                          /\ t.resourceId = rid
                          /\ t.relation = "source_group"
                          /\ Tuple("group", t.subjectId, "member", s.type, s.id) \in rs
    ELSE FALSE

\* SpiceDbClient.checkPermission: HAS_PERMISSION or not
checkPermission(rs, rt, rid, permission, s) == HasPermission(rs, rt, rid, permission, s)

\* ------------------------------------------------------------------------
\* authorization.ts
\* ------------------------------------------------------------------------
canWriteToGroup(rs, subject, groupId) ==
    checkPermission(rs, "group", groupId, "contribute", subject)

canDeleteFragment_ViewPermission(rs, subject, fragmentId) ==
    checkPermission(rs, "memory_fragment", fragmentId, "view", subject)

canDeleteFragment(rs, subject, fragmentId) ==
    checkPermission(rs, "memory_fragment", fragmentId, "delete", subject)

\* the tuples ensureGroupMembership touches
ensureGroupMembership(groupId, member) ==
    {Tuple("group", groupId, "member", member.type, member.id)}

\* the tuples writeFragmentRelationships touches
writeFragmentRelationships(fragmentId, groupId, sharedBy, involves) ==
    {Tuple("memory_fragment", fragmentId, "source_group", "group", groupId),
     Tuple("memory_fragment", fragmentId, "shared_by", sharedBy.type, sharedBy.id)}
    \cup {Tuple("memory_fragment", fragmentId, "involves", "person", p) : p \in involves}

\* the tuples deleteFragmentRelationships deletes
deleteFragmentRelationships(fragmentId, groupId, sharedBy) ==
    {Tuple("memory_fragment", fragmentId, "source_group", "group", groupId),
     Tuple("memory_fragment", fragmentId, "shared_by", sharedBy.type, sharedBy.id)}

\* ------------------------------------------------------------------------
\* search.ts: the parallel multi-group search and its merge
\* ------------------------------------------------------------------------
\* created_at is an ISO-8601 text: a local clock reading and a zone offset
CreatedAt(local, offset) == [local |-> local, offset |-> offset]

\* new Date(created_at).getTime(): the instant the text denotes
getTime(createdAt) == createdAt.local - createdAt.offset

\* new Date().toISOString(): the current instant, written in UTC
toISOString(t) == CreatedAt(t, 0)

\* a node or fact as Graphiti stores it (hasDate FALSE: created_at is null)
GraphItem(kind, uuid, groupId, createdAt, hasDate) ==
    [kind |-> kind, uuid |-> uuid, group_id |-> groupId,
     created_at |-> createdAt, hasDate |-> hasDate]

nodeToResult(node, t) ==
    [type |-> "node", uuid |-> node.uuid, group_id |-> node.group_id,
     created_at |-> IF node.hasDate THEN node.created_at ELSE toISOString(t)]

factToResult(fact) ==
    [type |-> "fact", uuid |-> fact.uuid, group_id |-> fact.group_id,
     created_at |-> fact.created_at]

\* searchNodesForGroup / searchFactsForGroup: the mapped answer of one request
toResults(kind, answer, t) ==
    [i \in 1..Len(answer) |->
        IF kind = "node" THEN nodeToResult(answer[i], t) ELSE factToResult(answer[i])]

\* the promises of one search, in the order they are pushed:
\* for each group its node search, then its fact search
SearchPromises(groupIds) ==
    [i \in 1..(2 * Len(groupIds)) |->
        [group_id |-> groupIds[(i + 1) \div 2],
         kind |-> IF i % 2 = 1 THEN "node" ELSE "fact",
         status |-> "pending", value |-> <<>>]]

RECURSIVE FlattenFulfilled(_)
\* the values of the fulfilled promises, concatenated in promise order
FlattenFulfilled(settled) ==
    IF settled = <<>> THEN <<>>
    ELSE (IF Head(settled).status = "fulfilled" THEN Head(settled).value ELSE <<>>)
         \o FlattenFulfilled(Tail(settled))

RECURSIVE dedupeSeen(_, _)
\* keeps the first result of each uuid
dedupeSeen(results, seen) ==
    IF results = <<>> THEN <<>>
    ELSE IF Head(results).uuid \in seen
         THEN dedupeSeen(Tail(results), seen)
         ELSE <<Head(results)>> \o dedupeSeen(Tail(results), seen \cup {Head(results).uuid})

dedupeByUuid_KeepsAll(results) == results

dedupeByUuid(results) == dedupeSeen(results, {})

\* comparator of the sort: dateB - dateA
compareRecency_AsText(a, b) == b.created_at.local - a.created_at.local

compareRecency(a, b) == getTime(b.created_at) - getTime(a.created_at)

RECURSIVE insertSorted(_, _)
insertSorted(x, sorted) ==
    IF sorted = <<>> THEN <<x>>
    ELSE IF compareRecency(Head(sorted), x) <= 0
         THEN <<Head(sorted)>> \o insertSorted(x, Tail(sorted))
         ELSE <<x>> \o sorted

RECURSIVE sortByRecency(_)
\* Array.prototype.sort with compareRecency (stable)
sortByRecency(results) ==
    IF results = <<>> THEN <<>>
    ELSE insertSorted(results[Len(results)],
                      sortByRecency(SubSeq(results, 1, Len(results) - 1)))

sliceToLimit_OneMore(results, limit) ==
    SubSeq(results, 1, IF limit + 1 < Len(results) THEN limit + 1 ELSE Len(results))

\* results.slice(0, limit)
sliceToLimit(results, limit) ==
    SubSeq(results, 1, IF limit < Len(results) THEN limit ELSE Len(results))

\* Promise.allSettled: a rejected promise contributes nothing
settledOutcome_AllOrNothing(settled) ==
    IF \E i \in 1..Len(settled) : settled[i].status = "rejected"
    THEN [threw |-> TRUE, results |-> <<>>]
    ELSE [threw |-> FALSE, results |-> FlattenFulfilled(settled)]

settledOutcome(settled) == [threw |-> FALSE, results |-> FlattenFulfilled(settled)]

\* searchAuthorizedMemories, once every promise has settled
mergeResults(settled, limit) ==
    LET outcome == settledOutcome(settled)
    IN  [threw |-> outcome.threw,
         results |-> sliceToLimit(sortByRecency(dedupeByUuid(outcome.results)), limit)]

deduplicateSessionResults_KeepsAll(longTermResults, sessionResults) == sessionResults

deduplicateSessionResults(longTermResults, sessionResults) ==
    LET longTermIds == {longTermResults[i].uuid : i \in 1..Len(longTermResults)}
    IN  SelectSeq(sessionResults, LAMBDA r : r.uuid \notin longTermIds)

\* ------------------------------------------------------------------------
\* State
\* ------------------------------------------------------------------------
VARIABLES
    currentSessionId,   \* per process: the tracked session key, or None
    lastWriteToken,     \* per process: most recent ZedToken (0: undefined)
    rels,               \* SpiceDB: the stored relationship tuples
    zedRevision,        \* SpiceDB: revision of the last write (its ZedToken)
    queued,             \* Graphiti: episodes accepted by add_memory, not yet extracted
    episodes,           \* Graphiti: extracted episodes, each with its server uuid
    nextUuid,           \* Graphiti: next server uuid
    now,                \* Date.now()
    call,               \* the store invocations (memory_store / auto-capture)
    forget,             \* the memory_forget invocation
    forgets,            \* number of memory_forget invocations started
    writes,             \* SpiceDB writes of the process, each with its ZedToken
    reads,              \* authorization reads of the process, as issued and answered
    search,             \* one searchAuthorizedMemories invocation and its promises
    recall,             \* one memory_recall invocation
    mcp,                \* the GraphitiClient's MCP session and the requests it sent
    bulk                \* one SpiceDbClient.bulkImportRelationships invocation

procVars == <<currentSessionId, lastWriteToken>>
spiceVars == <<rels, zedRevision>>
graphVars == <<queued, episodes, nextUuid>>
tokenVars == <<writes, reads>>
engineVars == <<search, recall, mcp, bulk>>
vars == <<currentSessionId, lastWriteToken, rels, zedRevision, queued,
          episodes, nextUuid, now, call, forget, forgets, writes, reads,
          search, recall, mcp, bulk>>

\* pc: idle | ensuring | checking | adding | done
\* result: none | created | denied | threw | capture failed
\* poll (the resolvedUuid chain): none | polling | writing | written | write failed | timed out
\*   (a direct addEpisode call, with no chain on it: none | polling | resolved | timed out)
IdleCall ==
    [pc |-> "idle", kind |-> "none", subject |-> Pi, target |-> None,
     involves |-> {}, sess |-> None, isOwn |-> FALSE, allowed |-> "none",
     ensured |-> "none", name |-> None, addSent |-> FALSE, addOk |-> FALSE,
     result |-> "none", episodeId |-> None, poll |-> "none", attempts |-> 0,
     pollsSent |-> 0, resolved |-> None, errorSeconds |-> 0, warns |-> {}]

\* pc: idle | checking | deleting | cleanup | done
\* orphan, creator, otherCreator, involved, found, contribute: what held of
\* the fragment and the requester when the delete check settled
IdleForget ==
    [pc |-> "idle", subject |-> Pi, episode_id |-> None, allowed |-> "none",
     orphan |-> FALSE, creator |-> FALSE, otherCreator |-> FALSE,
     involved |-> FALSE, found |-> FALSE, contribute |-> FALSE,
     deleteSent |-> FALSE, result |-> "none", warns |-> {}]

\* a ConsistencyMode argument; mode "undefined": the argument is omitted
NoConsistency == [mode |-> "undefined", token |-> 0]

\* state: idle | sent | applied | returned | failed
\* token: the revision the engine wrote the tuples at (0: not applied)
\* returned: the token the write's caller received (0: undefined)
IdleWrite ==
    [state |-> "idle", site |-> "none", tuples |-> {}, token |-> 0, returned |-> 0,
     stamped |-> FALSE]

\* state: idle | sent | done
\* retained, returnedTokens, applied: lastWriteToken, the tokens the process's
\* writes had returned, and the engine's revision, when the read was issued
IdleRead ==
    [state |-> "idle", site |-> "none", group |-> None,
     consistency |-> NoConsistency,
     requirement |-> [oneofKind |-> "none", token |-> 0],
     retained |-> 0, returnedTokens |-> {}, applied |-> 0,
     revision |-> 0, result |-> {}]

\* pc: idle | searching | done
IdleSearch ==
    [pc |-> "idle", groupIds |-> <<>>, limit |-> 0, promises |-> <<>>,
     threw |-> FALSE, results |-> <<>>]

\* pc: idle | lookup | searching | done
\* outcome: none | threw | no groups | no memories | found
IdleRecall ==
    [pc |-> "idle", scope |-> "none", limit |-> 0, graph |-> {},
     authorizedGroups |-> <<>>, longTermGroups |-> <<>>, sessionGroups |-> <<>>,
     searched |-> {}, longTerm |-> <<>>, session |-> <<>>, outcome |-> "none",
     longTermResults |-> <<>>, rawSessionResults |-> <<>>, sessionResults |-> <<>>]

\* initPromise: none | pending | resolved | rejected
\* handshake (position of doInitialize): none | initialize | parsing | notify | done | failed
\* outcomes[n]: how the n-th doInitialize promise settled (pending until then)
\* returned: the mcp-session-id of the initialize response (None: no header)
\* tool pc: idle | waiting | sent | done | failed
IdleMcp ==
    [sessionId |-> None, initPromise |-> "none", handshake |-> "none",
     handshakes |-> 0, outcomes |-> <<>>, answered |-> FALSE, returned |-> None,
     requests |-> <<>>,
     tool |-> [c \in ToolCalls |->
                  [pc |-> "idle", waitsOn |-> 0, hadSession |-> FALSE,
                   initiated |-> FALSE]]]

\* pc: idle | writing | streaming | done | failed
\* sent: the chunks passed to writeRelationships; stream: those written to
\* the ImportBulkRelationships stream
IdleBulk ==
    [pc |-> "idle", tuples |-> <<>>, batchSize |-> 0, streaming |-> FALSE,
     i |-> 0, total |-> 0, sent |-> <<>>, stream |-> <<>>, result |-> 0]

Init ==
    /\ currentSessionId = [s \in Procs |-> None]
    /\ lastWriteToken = [s \in Procs |-> 0]
    /\ rels = {}
    /\ zedRevision = 0
    /\ queued = {}
    /\ episodes = {}
    /\ nextUuid = 1
    /\ now = 0
    /\ call = [c \in Calls |-> IdleCall]
    /\ forget = IdleForget
    /\ forgets = 0
    /\ writes = [w \in WriteIds |-> IdleWrite]
    /\ reads = [r \in ReadIds |-> IdleRead]
    /\ search = IdleSearch
    /\ recall = IdleRecall
    /\ mcp = IdleMcp
    /\ bulk = IdleBulk

\* randomUUID() of the c-th addEpisode
trackingUuid(c) == <<"trk", c>>

\* ------------------------------------------------------------------------
\* Environment
\* ------------------------------------------------------------------------
\* before_agent_start: track the session key from the hook context.
before_agent_start(s, k) ==
    /\ currentSessionId[s] # k
    /\ currentSessionId' = [currentSessionId EXCEPT ![s] = k]
    /\ UNCHANGED <<lastWriteToken, spiceVars, graphVars, now, call, forget, forgets, tokenVars, engineVars>>

\* `graphiti-mem add-member <group-id> <subject-id> --type agent`, run by an
\* administrator from the standalone CLI.
MemberGroups == {defaultGroupId}

AddMember(groupId, s) ==
    /\ ensureGroupMembership(groupId, s) \cap rels = {}
    /\ rels' = rels \cup ensureGroupMembership(groupId, s)
    /\ zedRevision' = zedRevision + 1
    /\ UNCHANGED <<procVars, graphVars, now, call, forget, forgets, tokenVars, engineVars>>

\* Graphiti finishes the asynchronous extraction of a queued episode and
\* assigns its uuid.
Extract(q) ==
    /\ q \in queued
    /\ queued' = queued \ {q}
    /\ episodes' = episodes \cup
           {[uuid |-> <<"srv", nextUuid>>, name |-> q.name, group_id |-> q.group_id,
             sub |-> q.sub]}
    /\ nextUuid' = nextUuid + 1
    /\ UNCHANGED <<procVars, spiceVars, now, call, forget, forgets, tokenVars, engineVars>>

\* ------------------------------------------------------------------------
\* memory_store and auto-capture (agent_end)
\* ------------------------------------------------------------------------
\* Resolve target group: explicit > longTerm flag > default
targetGroupId(s, group_id, longTerm) ==
    IF group_id # None THEN group_id
    ELSE IF ~longTerm /\ currentSessionId[s] # None
         THEN sessionGroupId(currentSessionId[s])
         ELSE defaultGroupId

isOwnSession_AnySessionGroup(sess, target) ==
    isSessionGroup(target)

isOwnSession(sess, target) ==
    /\ isSessionGroup(target)
    /\ sess # None
    /\ target = sessionGroupId(sess)

BeginStore_NoAwait(c, kind, s, sess, target, involves) ==
    /\ call[c].pc = "idle"
    /\ \A d \in Calls : d < c => call[d].pc # "idle"
    /\ call' = [call EXCEPT ![c] =
           [@ EXCEPT !.kind = kind, !.subject = s, !.target = target,
                     !.involves = involves, !.sess = sess,
                     !.isOwn = isOwnSession(sess, target),
                     !.pc = "adding", !.name = <<kind, now>>, !.addSent = TRUE]]

\* The part of a store up to its first await: the own-session branch issues
\* ensureGroupMembership, every other target issues canWriteToGroup.
BeginStore(c, kind, s, sess, target, involves) ==
    /\ call[c].pc = "idle"
    /\ \A d \in Calls : d < c => call[d].pc # "idle"
    /\ call' = [call EXCEPT ![c] =
           [@ EXCEPT !.kind = kind, !.subject = s, !.target = target,
                     !.involves = involves, !.sess = sess,
                     !.isOwn = isOwnSession(sess, target),
                     !.pc = IF isOwnSession(sess, target) THEN "ensuring" ELSE "checking"]]

memory_store(c, s, group_id, longTerm, involves) ==
    /\ BeginStore(c, "memory", s, currentSessionId[s],
                  targetGroupId(s, group_id, longTerm), involves)
    /\ UNCHANGED <<procVars, spiceVars, graphVars, now, forget, forgets, tokenVars, engineVars>>

\* agent_end with a successful turn that has capturable messages; the hook
\* first tracks ctx.sessionKey (k = None: the context carries none).
agent_end(c, s, k) ==
    LET sess == IF k # None THEN k ELSE currentSessionId[s]
        target == IF sess # None THEN sessionGroupId(sess) ELSE defaultGroupId
    IN  /\ BeginStore(c, "auto_capture", s, sess, target, {})
        /\ currentSessionId' = [currentSessionId EXCEPT ![s] = sess]
        /\ UNCHANGED <<lastWriteToken, spiceVars, graphVars, now, forget, forgets, tokenVars, engineVars>>

\* graphiti.addEpisode up to its await of callTool("add_memory"): the episode
\* name is `memory_${Date.now()}` / `auto_capture_${Date.now()}` and the
\* request is sent.
SendAddMemory(r, t) ==
    [r EXCEPT !.pc = "adding", !.name = <<r.kind, t>>, !.addSent = TRUE]

\* Date.now() read by a resuming handler: the clock has stood still since the
\* last reading or has advanced.
Clock == {t \in {now, now + 1} : t <= MaxTime}

\* The store's error exit: memory_store lets the error propagate to its
\* caller, the agent_end hook catches it and logs "capture failed".
Threw(r) ==
    IF r.kind = "memory"
    THEN [r EXCEPT !.pc = "done", !.result = "threw"]
    ELSE [r EXCEPT !.pc = "done", !.result = "capture failed",
                   !.warns = @ \cup {"capture failed"}]

\* The declined exit: memory_store returns details.action = "denied", the
\* hook logs "auto-capture denied" and returns.
Denied(r) ==
    [r EXCEPT !.pc = "done", !.result = "denied",
              !.warns = IF r.kind = "memory" THEN @ ELSE @ \cup {"denied"}]

StoreMembershipSettles_FailureThrows(c) ==
    /\ call[c].pc = "ensuring"
    /\ \/ \E t \in Clock :
            /\ now' = t
            /\ rels' = rels \cup ensureGroupMembership(call[c].target, call[c].subject)
            /\ zedRevision' = zedRevision + 1
            /\ lastWriteToken' = [lastWriteToken EXCEPT ![call[c].subject] = zedRevision + 1]
            /\ call' = [call EXCEPT ![c] = SendAddMemory([@ EXCEPT !.ensured = "ok"], t)]
       \/ /\ call' = [call EXCEPT ![c] = Threw([@ EXCEPT !.ensured = "failed"])]
          /\ UNCHANGED <<rels, zedRevision, lastWriteToken, now>>
    /\ UNCHANGED <<currentSessionId, graphVars, forget, forgets, tokenVars, engineVars>>

\* ensureGroupMembership settles.  A failure is caught (and logged by
\* memory_store); the store goes on to addEpisode either way.
StoreMembershipSettles(c) ==
    /\ call[c].pc = "ensuring"
    /\ \E t \in Clock :
        /\ now' = t
        /\ \/ /\ rels' = rels \cup ensureGroupMembership(call[c].target, call[c].subject)
              /\ zedRevision' = zedRevision + 1
              /\ lastWriteToken' = [lastWriteToken EXCEPT ![call[c].subject] = zedRevision + 1]
              /\ call' = [call EXCEPT ![c] = SendAddMemory([@ EXCEPT !.ensured = "ok"], t)]
           \/ /\ call' = [call EXCEPT ![c] =
                     SendAddMemory([@ EXCEPT !.ensured = "failed",
                         !.warns = IF call[c].kind = "memory"
                                   THEN @ \cup {"membership"} ELSE @], t)]
              /\ UNCHANGED <<rels, zedRevision, lastWriteToken>>
    /\ UNCHANGED <<currentSessionId, graphVars, forget, forgets, tokenVars, engineVars>>

StoreCheckSettles_NoGate(c) ==
    /\ call[c].pc = "checking"
    /\ \E t \in Clock :
        /\ now' = t
        /\ call' = [call EXCEPT ![c] =
               SendAddMemory([@ EXCEPT !.allowed =
                   IF canWriteToGroup(rels, call[c].subject, call[c].target)
                   THEN "yes" ELSE "no"], t)]
    /\ UNCHANGED <<procVars, spiceVars, graphVars, forget, forgets, tokenVars, engineVars>>

\* canWriteToGroup settles: false declines the store, true goes on to
\* addEpisode, an RPC error leaves through the error exit.
StoreCheckSettles(c) ==
    /\ call[c].pc = "checking"
    /\ \/ /\ canWriteToGroup(rels, call[c].subject, call[c].target)
          /\ \E t \in Clock :
                /\ now' = t
                /\ call' = [call EXCEPT ![c] = SendAddMemory([@ EXCEPT !.allowed = "yes"], t)]
       \/ /\ ~canWriteToGroup(rels, call[c].subject, call[c].target)
          /\ call' = [call EXCEPT ![c] = Denied([@ EXCEPT !.allowed = "no"])]
          /\ UNCHANGED now
       \/ /\ call' = [call EXCEPT ![c] = Threw(@)]
          /\ UNCHANGED now
    /\ UNCHANGED <<procVars, spiceVars, graphVars, forget, forgets, tokenVars, engineVars>>

AddMemorySettles_FailureStartsPoll(c) ==
    /\ call[c].pc = "adding"
    /\ \/ /\ queued' = queued \cup
                 {[sub |-> c, name |-> call[c].name, group_id |-> call[c].target]}
          /\ call' = [call EXCEPT ![c] =
                 [@ EXCEPT !.pc = "done", !.addOk = TRUE, !.result = "created",
                           !.episodeId = trackingUuid(c), !.poll = "polling"]]
       \/ /\ call' = [call EXCEPT ![c] = [Threw(@) EXCEPT !.poll = "polling"]]
          /\ UNCHANGED queued
    /\ UNCHANGED <<procVars, spiceVars, episodes, nextUuid, now, forget, forgets, tokenVars, engineVars>>

AddMemorySettles_AwaitsResolvedUuid(c) ==
    /\ call[c].pc = "adding"
    /\ call[c].poll = "none"
    /\ queued' = queued \cup
           {[sub |-> c, name |-> call[c].name, group_id |-> call[c].target]}
    /\ call' = [call EXCEPT ![c] = [@ EXCEPT !.addOk = TRUE, !.poll = "polling"]]
    /\ UNCHANGED <<procVars, spiceVars, episodes, nextUuid, now, forget, forgets, tokenVars, engineVars>>

\* callTool("add_memory") settles.  On success Graphiti has queued the
\* episode, addEpisode starts resolveEpisodeUuid (params.group_id is always
\* set by these callers) and the store returns the tracking uuid; on failure
\* the store leaves through the error exit and no poll is started.
AddMemorySettles(c) ==
    /\ call[c].pc = "adding"
    /\ \/ /\ queued' = queued \cup
                 {[sub |-> c, name |-> call[c].name, group_id |-> call[c].target]}
          /\ call' = [call EXCEPT ![c] =
                 [@ EXCEPT !.pc = "done", !.addOk = TRUE, !.result = "created",
                           !.episodeId = trackingUuid(c), !.poll = "polling"]]
       \/ /\ call' = [call EXCEPT ![c] = Threw(@)]
          /\ UNCHANGED queued
    /\ UNCHANGED <<procVars, spiceVars, episodes, nextUuid, now, forget, forgets, tokenVars, engineVars>>

\* ------------------------------------------------------------------------
\* graphiti.resolveEpisodeUuid and the deferred SpiceDB write chained on it
\* ------------------------------------------------------------------------
getEpisodesNamed_AnyName(groupId, name) ==
    {ep \in episodes : ep.group_id = groupId}

\* getEpisodes(groupId, 50) filtered by the submitted name
getEpisodesNamed(groupId, name) ==
    {ep \in episodes : ep.group_id = groupId /\ ep.name = name}

\* the rejection of resolvedUuid ("Failed to resolve episode UUID ... after
\* <n>s") reaches the chain's catch, which logs it
TimedOut(r) ==
    [r EXCEPT !.poll = "timed out",
              !.errorSeconds = (uuidPollMaxAttempts * uuidPollIntervalMs) \div 1000,
              !.warns = @ \cup {"deferred write failed"}]

Missed_OffByOne(r) ==
    IF r.attempts + 1 > uuidPollMaxAttempts
    THEN TimedOut([r EXCEPT !.attempts = @ + 1, !.pollsSent = @ + 1])
    ELSE [r EXCEPT !.attempts = @ + 1, !.pollsSent = @ + 1]

\* one more unsuccessful pass through the loop body
Missed(r) ==
    IF r.attempts + 1 >= uuidPollMaxAttempts
    THEN TimedOut([r EXCEPT !.attempts = @ + 1, !.pollsSent = @ + 1])
    ELSE [r EXCEPT !.attempts = @ + 1, !.pollsSent = @ + 1]

StartDeferredWrite_TrackingUuid(c, uuid) ==
    [call[c] EXCEPT !.poll = "writing", !.resolved = trackingUuid(c),
                    !.pollsSent = @ + 1]

\* resolvedUuid.then(realUuid => writeFragmentRelationships({fragmentId: realUuid, ...}))
StartDeferredWrite(c, uuid) ==
    [call[c] EXCEPT !.poll = "writing", !.resolved = uuid, !.pollsSent = @ + 1]

\* One iteration of the poll loop, after its sleep: get_episodes fails (caught,
\* retried), lists no episode of that name, or lists one, whose uuid resolves
\* the promise; the loop running out rejects it.
PollEpisodes(c) ==
    /\ call[c].poll = "polling"
    /\ call[c].attempts < uuidPollMaxAttempts
    /\ \/ call' = [call EXCEPT ![c] = Missed(@)]
       \/ \E match \in getEpisodesNamed(call[c].target, call[c].name) :
              call' = [call EXCEPT ![c] = StartDeferredWrite(c, match.uuid)]
    /\ UNCHANGED <<procVars, spiceVars, graphVars, now, forget, forgets, tokenVars, engineVars>>

\* writeFragmentRelationships of the chain settles; its token becomes the
\* last write token, its failure is logged by the chain's catch.
DeferredWriteSettles(c) ==
    /\ call[c].poll = "writing"
    /\ \/ /\ rels' = rels \cup writeFragmentRelationships(call[c].resolved,
                         call[c].target, call[c].subject, call[c].involves)
          /\ zedRevision' = zedRevision + 1
          /\ lastWriteToken' = [lastWriteToken EXCEPT ![call[c].subject] = zedRevision + 1]
          /\ call' = [call EXCEPT ![c].poll = "written"]
       \/ /\ call' = [call EXCEPT ![c].poll = "write failed",
                                  ![c].warns = @ \cup {"deferred write failed"}]
          /\ UNCHANGED <<rels, zedRevision, lastWriteToken>>
    /\ UNCHANGED <<currentSessionId, graphVars, now, forget, forgets, tokenVars, engineVars>>

\* ------------------------------------------------------------------------
\* memory_forget
\* ------------------------------------------------------------------------
\* every relationship whose resource is the fragment
RelsOf(rs, fragmentId) ==
    {t \in rs : t.resourceType = "memory_fragment" /\ t.resourceId = fragmentId}

\* ids a caller can hold: tracking uuids returned by stores, uuids of episodes
KnownIds ==
    {trackingUuid(c) : c \in {d \in Calls : call[d].result = "created"}}
    \cup {ep.uuid : ep \in episodes}

memory_forget(s, episode_id) ==
    /\ forgets < MaxForgets
    /\ forget.pc \in {"idle", "done"}
    /\ forget' = [IdleForget EXCEPT !.pc = "checking", !.subject = s,
                                    !.episode_id = episode_id]
    /\ forgets' = forgets + 1
    /\ UNCHANGED <<procVars, spiceVars, graphVars, now, call, tokenVars, engineVars>>

forgetAllowed_GroupFallback(rs, s, episode_id) ==
    \/ canDeleteFragment(rs, s, episode_id)
    \/ canWriteToGroup(rs, s, defaultGroupId)

\* 1. Check delete permission
forgetAllowed(rs, s, episode_id) ==
    canDeleteFragment(rs, s, episode_id)

\* canDeleteFragment settles: false declines, true sends delete_episode.
ForgetCheckSettles ==
    /\ forget.pc = "checking"
    /\ LET seen == [forget EXCEPT
                       !.orphan = (RelsOf(rels, forget.episode_id) = {}),
                       !.creator = (\E t \in RelsOf(rels, forget.episode_id) :
                                     /\ t.relation = "shared_by"
                                     /\ t.subjectType = forget.subject.type
                                     /\ t.subjectId = forget.subject.id),
                       !.otherCreator = (\E t \in RelsOf(rels, forget.episode_id) :
                                     /\ t.relation = "shared_by"
                                     /\ <<t.subjectType, t.subjectId>> #
                                            <<forget.subject.type, forget.subject.id>>),
                       !.involved = (\E t \in RelsOf(rels, forget.episode_id) :
                                     /\ t.relation = "involves"
                                     /\ t.subjectType = forget.subject.type
                                     /\ t.subjectId = forget.subject.id),
                       !.found = (\E ep \in episodes :
                                     /\ ep.uuid = forget.episode_id
                                     /\ checkPermission(rels, "group", ep.group_id,
                                                        "access", forget.subject)),
                       !.contribute = (\E ep \in episodes :
                                     /\ ep.uuid = forget.episode_id
                                     /\ canWriteToGroup(rels, forget.subject, ep.group_id))]
       IN  \/ forget' =
                 IF forgetAllowed(rels, forget.subject, forget.episode_id)
                 THEN [seen EXCEPT !.allowed = "yes", !.pc = "deleting", !.deleteSent = TRUE]
                 ELSE [seen EXCEPT !.allowed = "no", !.pc = "done", !.result = "denied"]
           \/ forget' = [forget EXCEPT !.pc = "done", !.result = "threw"]
    /\ UNCHANGED <<procVars, spiceVars, graphVars, now, call, forgets, tokenVars, engineVars>>

\* 2. Delete from Graphiti
ForgetDeleteSettles ==
    /\ forget.pc = "deleting"
    /\ \/ /\ episodes' = {ep \in episodes : ep.uuid # forget.episode_id}
          /\ forget' = [forget EXCEPT !.pc = "cleanup"]
       \/ /\ forget' = [forget EXCEPT !.pc = "done", !.result = "threw"]
          /\ UNCHANGED episodes
    /\ UNCHANGED <<procVars, spiceVars, queued, nextUuid, now, call, forgets, tokenVars, engineVars>>

\* 3. Clean up SpiceDB relationships (best-effort)
ForgetCleanupSettles ==
    /\ forget.pc = "cleanup"
    /\ \/ /\ rels' = rels \ deleteFragmentRelationships(forget.episode_id,
                                  defaultGroupId, forget.subject)
          /\ zedRevision' = zedRevision + 1
          /\ forget' = [forget EXCEPT !.pc = "done", !.result = "deleted"]
       \/ /\ forget' = [forget EXCEPT !.pc = "done", !.result = "deleted",
                                      !.warns = @ \cup {"cleanup failed"}]
          /\ UNCHANGED <<rels, zedRevision>>
    /\ UNCHANGED <<procVars, graphVars, now, call, forgets, tokenVars, engineVars>>

\* ------------------------------------------------------------------------
\* Specification
\* ------------------------------------------------------------------------
\* Stores and the environment they run in.
Next ==
    \/ \E s \in Hooked, k \in SessionKeys : before_agent_start(s, k)
    \/ \E g \in MemberGroups, s \in Procs : AddMember(g, s)
    \/ \E q \in queued : Extract(q)
    \/ \E c \in Calls, s \in Procs, g \in GroupIdArgs, lt \in BOOLEAN, inv \in InvolvesArgs :
           memory_store(c, s, g, lt, inv)
    \/ \E c \in Calls, s \in Hooked, k \in SessionKeys \cup {None} : agent_end(c, s, k)
    \/ \E c \in Calls : StoreMembershipSettles(c)
    \/ \E c \in Calls : StoreCheckSettles(c)
    \/ \E c \in Calls : AddMemorySettles(c)
    \/ \E c \in Calls : PollEpisodes(c)
    \/ \E c \in Calls : DeferredWriteSettles(c)

Spec == Init /\ [][Next]_vars

\* memory_forget beside the stores that create the fragments it is asked to
\* delete.
NextForget ==
    \/ \E s \in Hooked, k \in SessionKeys : before_agent_start(s, k)
    \/ \E g \in MemberGroups, s \in Procs : AddMember(g, s)
    \/ \E q \in queued : Extract(q)
    \/ \E c \in ForgetCalls, s \in Procs, g \in GroupIdArgs, lt \in BOOLEAN,
          inv \in InvolvesArgs : memory_store(c, s, g, lt, inv)
    \/ \E c \in ForgetCalls, s \in Hooked, k \in SessionKeys \cup {None} : agent_end(c, s, k)
    \/ \E c \in ForgetCalls : StoreMembershipSettles(c)
    \/ \E c \in ForgetCalls : StoreCheckSettles(c)
    \/ \E c \in ForgetCalls : AddMemorySettles(c)
    \/ \E c \in ForgetCalls : PollEpisodes(c)
    \/ \E c \in ForgetCalls : DeferredWriteSettles(c)
    \/ \E s \in Procs, id \in KnownIds : memory_forget(s, id)
    \/ ForgetCheckSettles
    \/ ForgetDeleteSettles
    \/ ForgetCleanupSettles

SpecForget == Init /\ [][NextForget]_vars

\* ------------------------------------------------------------------------
\* resolveEpisodeUuid against the clock, with uuidPollIntervalMs = 10 and
\* uuidPollMaxAttempts = 3 (specification SpecPollTiming)
\* ------------------------------------------------------------------------
\* The poll of agent:pi's store into the default group has just started:
\* add_memory returned at time 0 and the episode waits for extraction.
PolledCall ==
    [IdleCall EXCEPT !.pc = "done", !.kind = "memory", !.subject = Pi,
                     !.target = defaultGroupId, !.allowed = "yes",
                     !.name = <<"memory", 0>>, !.addSent = TRUE, !.addOk = TRUE,
                     !.result = "created", !.episodeId = trackingUuid(1),
                     !.poll = "polling"]

InitPollTiming ==
    /\ currentSessionId = [s \in Procs |-> None]
    /\ lastWriteToken = [s \in Procs |-> 0]
    /\ rels = ensureGroupMembership(defaultGroupId, Pi)
    /\ zedRevision = 1
    /\ queued = {[sub |-> 1, name |-> <<"memory", 0>>, group_id |-> defaultGroupId]}
    /\ episodes = {}
    /\ nextUuid = 1
    /\ now = 0
    /\ call = [c \in Calls |-> IF c = 1 THEN PolledCall ELSE IdleCall]
    /\ forget = IdleForget
    /\ forgets = 0
    /\ writes = [w \in WriteIds |-> IdleWrite]
    /\ reads = [r \in ReadIds |-> IdleRead]
    /\ search = IdleSearch
    /\ recall = IdleRecall
    /\ mcp = IdleMcp
    /\ bulk = IdleBulk

pollSleepMs_NoSleepBeforeFirst(i) ==
    IF i = 0 THEN 0 ELSE TestPollIntervalMs

\* setTimeout(r, this.uuidPollIntervalMs) of pass i
pollSleepMs(i) ==
    TestPollIntervalMs

\* The timer of a pass fires, at its due time or late, and get_episodes is
\* sent.
PollTimerFires(c) ==
    /\ call[c].poll = "polling"
    /\ call[c].attempts < TestPollMaxAttempts
    /\ \E late \in 0..MaxTimerLateMs :
           now' = now + pollSleepMs(call[c].attempts) + late
    /\ call' = [call EXCEPT ![c].poll = "listing", ![c].pollsSent = @ + 1]
    /\ UNCHANGED <<procVars, spiceVars, graphVars, forget, forgets, tokenVars, engineVars>>

\* get_episodes settles after some time: an error or a list without the
\* name ends the pass, and the last pass ends in the rejection; a list with
\* the name resolves the promise.
PollListSettles(c) ==
    /\ call[c].poll = "listing"
    /\ \E took \in 0..MaxListMs : now' = now + took
    /\ \/ call' = [call EXCEPT ![c] =
              IF call[c].attempts + 1 >= TestPollMaxAttempts
              THEN [@ EXCEPT !.attempts = @ + 1, !.poll = "timed out",
                             !.warns = @ \cup {"deferred write failed"}]
              ELSE [@ EXCEPT !.attempts = @ + 1, !.poll = "polling"]]
       \/ \E match \in getEpisodesNamed(call[c].target, call[c].name) :
              call' = [call EXCEPT ![c].poll = "writing", ![c].resolved = match.uuid]
    /\ UNCHANGED <<procVars, spiceVars, graphVars, forget, forgets, tokenVars, engineVars>>

NextPollTiming ==
    \/ \E q \in queued : Extract(q)
    \/ \E c \in Calls : PollTimerFires(c)
    \/ \E c \in Calls : PollListSettles(c)

SpecPollTiming == InitPollTiming /\ [][NextPollTiming]_vars

\* ------------------------------------------------------------------------
\* ZedToken threading (specification SpecTokens)
\*
\* The SpiceDB traffic of one plugin process, agent:pi, seen from its
\* lastWriteToken: every site that awaits a write and every site that
\* issues an authorization read, each invocation running concurrently with
\* the others.  The engine applies a write at a new revision and answers
\* with that revision's token; the answer reaches the process in a later
\* step.  A read is evaluated at a revision its consistency requirement
\* allows.
\* ------------------------------------------------------------------------
\* authorization.ts, read wrappers: `zedToken` given -> at_least_as_fresh
\* carrying it, otherwise no consistency argument
zedTokenConsistency(zedToken) ==
    IF zedToken # 0
    THEN [mode |-> "at_least_as_fresh", token |-> zedToken]
    ELSE NoConsistency

\* authorization.ts, write wrappers: the token of spicedb.writeRelationships
\* is handed on to the caller
writeWrapperToken(writtenAt) == writtenAt

buildConsistency_DropsToken(mode) ==
    IF mode.mode \in {"undefined", "minimize_latency", "at_least_as_fresh"}
    THEN [oneofKind |-> "minimizeLatency", token |-> 0]
    ELSE [oneofKind |-> "fullyConsistent", token |-> 0]

\* SpiceDbClient.buildConsistency
buildConsistency(mode) ==
    IF mode.mode \in {"undefined", "minimize_latency"}
    THEN [oneofKind |-> "minimizeLatency", token |-> 0]
    ELSE IF mode.mode = "at_least_as_fresh"
    THEN [oneofKind |-> "atLeastAsFresh", token |-> mode.token]
    ELSE [oneofKind |-> "fullyConsistent", token |-> 0]

readToken_Undefined(s) == 0

\* the zedToken argument of the read sites: lastWriteToken
readToken(s) == lastWriteToken[s]

retainToken_Merges(held, token) == held + token

\* if (token) lastWriteToken = token
retainToken(held, token) ==
    IF token # 0 THEN token ELSE held

\* the tokens the process's writes have returned so far
ReturnedTokens ==
    {writes[w].returned : w \in {x \in WriteIds : writes[x].state = "returned"}} \ {0}

\* the relationships the engine held at a revision
RelsAt(revision) ==
    UNION {writes[w].tuples :
              w \in {x \in WriteIds : writes[x].token # 0 /\ writes[x].token <= revision}}

\* the revisions at which the engine may evaluate a read
ReadableRevisions(requirement) ==
    IF requirement.oneofKind = "minimizeLatency" THEN 0..zedRevision
    ELSE IF requirement.oneofKind = "atLeastAsFresh"
    THEN {n \in 0..zedRevision : n >= requirement.token}
    ELSE {zedRevision}

\* the next unused write of the process
WriteIdle(w) ==
    /\ writes[w].state = "idle"
    /\ \A x \in WriteIds : x < w => writes[x].state # "idle"

\* a write site reaches its await: writeRelationships is sent
SentWrite(site, tuples) ==
    [IdleWrite EXCEPT !.state = "sent", !.site = site, !.tuples = tuples]

\* service start(): ensureGroupMembership(defaultGroupId, currentSubject)
ServiceStartWrite(w) ==
    /\ WriteIdle(w)
    /\ \A x \in WriteIds : writes[x].site # "start"
    /\ writes' = [writes EXCEPT ![w] =
           SentWrite("start", ensureGroupMembership(defaultGroupId, Pi))]
    /\ UNCHANGED <<procVars, spiceVars, graphVars, now, call, forget, forgets, reads, engineVars>>

\* memory_store / agent_end, own-session branch:
\* ensureGroupMembership(targetGroupId, currentSubject)
SessionMembershipWrite(w, k) ==
    /\ WriteIdle(w)
    /\ writes' = [writes EXCEPT ![w] =
           SentWrite("ensure", ensureGroupMembership(sessionGroupId(k), Pi))]
    /\ UNCHANGED <<procVars, spiceVars, graphVars, now, call, forget, forgets, reads, engineVars>>

\* the deferred chain of a store: writeFragmentRelationships under the
\* resolved uuid
DeferredFragmentWrite(w, g) ==
    /\ WriteIdle(w)
    /\ writes' = [writes EXCEPT ![w] =
           SentWrite("deferred", writeFragmentRelationships(<<"srv", w>>, g, Pi, {}))]
    /\ UNCHANGED <<procVars, spiceVars, graphVars, now, call, forget, forgets, reads, engineVars>>

\* the engine applies the write (TOUCH) at a new revision
WriteApplied(w) ==
    /\ writes[w].state = "sent"
    /\ rels' = rels \cup writes[w].tuples
    /\ zedRevision' = zedRevision + 1
    /\ writes' = [writes EXCEPT ![w].state = "applied", ![w].token = zedRevision + 1]
    /\ UNCHANGED <<procVars, graphVars, now, call, forget, forgets, reads, engineVars>>

\* the await of the write resumes with the response's writtenAt token
\* (absent: undefined), which replaces lastWriteToken when it is set
WriteReturns(w) ==
    /\ writes[w].state = "applied"
    /\ \E writtenAt \in {writes[w].token, 0} :
        /\ writes' = [writes EXCEPT ![w].state = "returned",
                                    ![w].returned = writeWrapperToken(writtenAt)]
        /\ lastWriteToken' = [lastWriteToken EXCEPT ![Pi] =
               retainToken(@, writeWrapperToken(writtenAt))]
    /\ UNCHANGED <<currentSessionId, spiceVars, graphVars, now, call, forget, forgets, reads, engineVars>>

\* the write's RPC rejects (before or after the engine applied it); each
\* site catches the error and logs a warning
WriteFails(w) ==
    /\ writes[w].state \in {"sent", "applied"}
    /\ writes' = [writes EXCEPT ![w].state = "failed"]
    /\ UNCHANGED <<procVars, spiceVars, graphVars, now, call, forget, forgets, reads, engineVars>>

\* the next unused read of the process
ReadIdle(r) ==
    /\ reads[r].state = "idle"
    /\ \A x \in ReadIds : x < r => reads[x].state # "idle"

\* a read site reaches its await: the wrapper is called with lastWriteToken
\* and the client sends the request with the consistency built from it
SentRead(site, g) ==
    [IdleRead EXCEPT !.state = "sent", !.site = site, !.group = g,
                     !.consistency = zedTokenConsistency(readToken(Pi)),
                     !.requirement = buildConsistency(zedTokenConsistency(readToken(Pi))),
                     !.retained = lastWriteToken[Pi],
                     !.returnedTokens = ReturnedTokens,
                     !.applied = zedRevision]

\* memory_recall / before_agent_start:
\* lookupAuthorizedGroups(spicedb, currentSubject, lastWriteToken)
LookupAuthorizedGroups(r) ==
    /\ ReadIdle(r)
    /\ reads' = [reads EXCEPT ![r] = SentRead("lookup", None)]
    /\ UNCHANGED <<procVars, spiceVars, graphVars, now, call, forget, forgets, writes, engineVars>>

\* memory_store / agent_end / memory_forget:
\* canWriteToGroup(spicedb, currentSubject, groupId, lastWriteToken)
CheckContribute(r, g) ==
    /\ ReadIdle(r)
    /\ reads' = [reads EXCEPT ![r] = SentRead("check", g)]
    /\ UNCHANGED <<procVars, spiceVars, graphVars, now, call, forget, forgets, writes, engineVars>>

\* the groups on which the subject holds the permission in a relationship set
lookupResources(rs, permission, s) ==
    {t.resourceId : t \in {u \in rs : /\ u.resourceType = "group"
                                      /\ HasPermission(rs, "group", u.resourceId,
                                                       permission, s)}}

\* the engine answers the read at one of the revisions the requirement
\* allows; a check is answered with the group or nothing
ReadAnswered(r) ==
    /\ reads[r].state = "sent"
    /\ \E n \in ReadableRevisions(reads[r].requirement) :
           reads' = [reads EXCEPT ![r].state = "done", ![r].revision = n,
               ![r].result =
                   IF reads[r].site = "lookup"
                   THEN lookupResources(RelsAt(n), "access", Pi)
                   ELSE IF canWriteToGroup(RelsAt(n), Pi, reads[r].group)
                        THEN {reads[r].group} ELSE {}]
    /\ UNCHANGED <<procVars, spiceVars, graphVars, now, call, forget, forgets, writes, engineVars>>

\* the partitions of fragment writes and contribute checks
TokenGroups == {defaultGroupId} \cup {sessionGroupId(k) : k \in SessionKeys}

NextTokens ==
    \/ \E w \in WriteIds : ServiceStartWrite(w)
    \/ \E w \in WriteIds, k \in SessionKeys : SessionMembershipWrite(w, k)
    \/ \E w \in WriteIds, g \in TokenGroups : DeferredFragmentWrite(w, g)
    \/ \E w \in WriteIds : WriteApplied(w)
    \/ \E w \in WriteIds : WriteReturns(w)
    \/ \E w \in WriteIds : WriteFails(w)
    \/ \E r \in ReadIds : LookupAuthorizedGroups(r)
    \/ \E r \in ReadIds, g \in TokenGroups : CheckContribute(r, g)
    \/ \E r \in ReadIds : ReadAnswered(r)

SpecTokens == Init /\ [][NextTokens]_vars

\* ------------------------------------------------------------------------
\* Session partitions of two subjects (specification SpecSessions)
\*
\* Both processes have their hooks registered and each is given the session
\* keys of its own sessions; nobody is added to a session partition from
\* the CLI.  The stores are followed up to the answer of add_memory: the
\* poll and the deferred write that come after it neither write a
\* membership nor create a fragment.
\* ------------------------------------------------------------------------
\* ctx.sessionKey values the host of each process delivers
SessionKeysOf(s) ==
    IF s = Pi THEN {<<"a", ":">>} ELSE {<<"a", "-">>, <<"_">>}

NextSessions ==
    \/ \E s \in Procs : \E k \in SessionKeysOf(s) : before_agent_start(s, k)
    \/ \E g \in MemberGroups, s \in Procs : AddMember(g, s)
    \/ \E c \in Calls, s \in Procs, g \in GroupIdArgs, lt \in BOOLEAN, inv \in InvolvesArgs :
           memory_store(c, s, g, lt, inv)
    \/ \E c \in Calls, s \in Procs : \E k \in SessionKeysOf(s) \cup {None} :
           agent_end(c, s, k)
    \/ \E c \in Calls : StoreMembershipSettles(c)
    \/ \E c \in Calls : StoreCheckSettles(c)
    \/ \E c \in Calls : AddMemorySettles(c)

SpecSessions == Init /\ [][NextSessions]_vars

\* ------------------------------------------------------------------------
\* Properties of the store path (specification Spec)
\* ------------------------------------------------------------------------
\* the store's target is the session partition of the caller's own session
OwnSessionTarget(r) ==
    r.sess # None /\ r.target = sessionGroupId(r.sess)

\* C1: a store (memory_store or auto-capture) whose contribute check came
\* back false never sends add_memory, writes no relationship (neither a
\* membership nor a deferred fragment write is ever issued by it) and ends
\* with the declined result, not with an error.
C1_DeniedStoreDoesNothing ==
    \A c \in Calls :
        call[c].allowed = "no" =>
            /\ ~call[c].addSent
            /\ call[c].ensured = "none"
            /\ call[c].poll = "none"
            /\ call[c].resolved = None
            /\ call[c].pc = "done"
            /\ call[c].result = "denied"
            /\ \A q \in queued \cup episodes : q.sub # c

\* a memory_store and an auto-capture, both to a partition other than the
\* caller's own session, both declined
C1_Witness ==
    \E c, d \in Calls :
        /\ call[c].kind = "memory" /\ call[d].kind = "auto_capture"
        /\ call[c].allowed = "no" /\ call[d].allowed = "no"
        /\ call[c].result = "denied" /\ call[d].result = "denied"
        /\ ~OwnSessionTarget(call[c]) /\ ~OwnSessionTarget(call[d])

\* C2: the contribute check is skipped (the membership write is issued in
\* its place) only for the session partition of the caller's own current
\* session; add_memory for any other target, a foreign session partition
\* included, is sent only after the check came back true.
C2_CheckSkippedOnlyForOwnSession ==
    \A c \in Calls :
        /\ call[c].pc = "ensuring" \/ call[c].ensured # "none" => OwnSessionTarget(call[c])
        /\ call[c].addSent => OwnSessionTarget(call[c]) \/ call[c].allowed = "yes"

\* one store went to its own session partition without a check while a
\* store of another subject to that same session partition was declined
C2_Witness ==
    \E c, d \in Calls :
        /\ call[c].addSent /\ call[c].allowed = "none" /\ OwnSessionTarget(call[c])
        /\ call[d].target = call[c].target /\ isSessionGroup(call[d].target)
        /\ call[d].subject # call[c].subject
        /\ call[d].allowed = "no" /\ ~call[d].addSent

\* C3: add_memory is sent only after the store's authorization step (the
\* contribute check, or the own-session membership write) has settled, and
\* the reconciliation poll sends its first request only after add_memory
\* has returned successfully.
C3_AuthorizeThenAddThenPoll ==
    \A c \in Calls :
        /\ call[c].addSent => call[c].allowed = "yes" \/ call[c].ensured # "none"
        /\ call[c].poll # "none" \/ call[c].pollsSent > 0 =>
               call[c].addSent /\ call[c].addOk

\* both orders happened: a checked store and an own-session store have each
\* been authorized, accepted by add_memory and polled for
C3_Witness ==
    \E c, d \in Calls :
        /\ call[c].allowed = "yes" /\ call[c].addOk /\ call[c].pollsSent > 0
        /\ call[d].ensured = "ok" /\ call[d].addOk /\ call[d].pollsSent > 0

\* C4: once the deferred write of a store with no involved subjects, made
\* into a partition on which its creator holds contribute, has completed,
\* the engine holds exactly two relationships for the resolved id:
\* source_group -> the target partition and shared_by -> the creator.
C4_ExactlyTwoRelationships ==
    \A c \in Calls :
        /\ call[c].poll = "written"
        /\ call[c].involves = {}
        /\ call[c].allowed = "yes"
        => RelsOf(rels, call[c].resolved) =
               {Tuple("memory_fragment", call[c].resolved, "source_group", "group",
                      call[c].target),
                Tuple("memory_fragment", call[c].resolved, "shared_by",
                      call[c].subject.type, call[c].subject.id)}

\* another store submitted the same name to the same partition
SameNameStore(c) ==
    \E d \in Calls \ {c} :
        /\ call[d].addSent
        /\ call[d].name = call[c].name
        /\ call[d].target = call[c].target

C10_TimedOutLeavesOrphan ==
    \A c \in Calls :
        call[c].poll = "timed out" =>
            /\ call[c].resolved = None
            /\ "deferred write failed" \in call[c].warns
            /\ call[c].result = "created"
            /\ \A ep \in episodes : ep.sub = c => RelsOf(rels, ep.uuid) = {}

\* the part of C10 that concerns the timed-out store's own chain
C10_OwnChain ==
    \A c \in Calls :
        call[c].poll = "timed out" =>
            /\ call[c].resolved = None
            /\ "deferred write failed" \in call[c].warns
            /\ call[c].result = "created"
            /\ call[c].attempts = uuidPollMaxAttempts
            /\ ~SameNameStore(c) =>
                   \A ep \in episodes : ep.sub = c => RelsOf(rels, ep.uuid) = {}

\* C4 for the stores whose name no other store submitted to the partition
C4_UniqueName ==
    \A c \in Calls :
        /\ call[c].poll = "written"
        /\ call[c].involves = {}
        /\ call[c].allowed = "yes"
        /\ ~SameNameStore(c)
        => RelsOf(rels, call[c].resolved) =
               writeFragmentRelationships(call[c].resolved, call[c].target,
                                          call[c].subject, {})

\* C11: a store returns its result, carrying the tracking uuid, without
\* waiting for the resolved-uuid promise: whenever that promise exists,
\* pending, resolved or rejected, the store has already returned the same
\* "created" result with the tracking uuid.
C11_StoreReturnsBeforeResolution ==
    \A c \in Calls :
        call[c].poll # "none" =>
            /\ call[c].pc = "done"
            /\ call[c].result = "created"
            /\ call[c].episodeId = trackingUuid(c)

\* both outcomes in one state: one store has returned
\* and its promise has resolved and been written, the other has returned
\* and its promise has rejected
C11_Witness ==
    \E c, d \in Calls :
        /\ call[c].poll = "written" /\ call[d].poll = "timed out"
        /\ call[c].result = "created" /\ call[d].result = "created"
        /\ call[c].episodeId = trackingUuid(c) /\ call[d].episodeId = trackingUuid(d)

\* a store has returned while its promise is still pending
C11_ReturnedWhilePending ==
    \E c \in Calls :
        /\ call[c].poll = "polling" /\ call[c].attempts = 0
        /\ call[c].result = "created"

\* C12: a resolved-uuid promise resolves with the server-assigned uuid of
\* an episode that the target partition lists under the submitted name,
\* and that uuid is not the store's tracking uuid.
C12_ResolvesToNamedEpisode ==
    \A c \in Calls :
        call[c].resolved # None =>
            /\ call[c].resolved # trackingUuid(c)
            /\ call[c].resolved # call[c].episodeId
            /\ \E ep \in episodes :
                   /\ ep.uuid = call[c].resolved
                   /\ ep.name = call[c].name
                   /\ ep.group_id = call[c].target

\* a promise resolved while the partition also listed an episode of
\* another name
C12_Witness ==
    \E c \in Calls :
        /\ call[c].resolved # None
        /\ \E ep \in episodes :
               /\ ep.group_id = call[c].target
               /\ ep.name # call[c].name
               /\ ep.uuid # call[c].resolved

\* C13: a poll sends at most uuidPollMaxAttempts list requests; while it
\* is pending it has attempts left; once they are used up without a match
\* it has sent exactly uuidPollMaxAttempts requests and its promise is
\* rejected with the error naming attempts x interval in seconds, after
\* which it sends nothing.
C13_PollStopsAfterMaxAttempts ==
    \A c \in Calls :
        /\ call[c].pollsSent <= uuidPollMaxAttempts
        /\ call[c].poll = "polling" => call[c].attempts < uuidPollMaxAttempts
        /\ call[c].poll = "timed out" =>
               /\ call[c].pollsSent = uuidPollMaxAttempts
               /\ call[c].attempts = uuidPollMaxAttempts
               /\ call[c].resolved = None
               /\ 1000 * call[c].errorSeconds = uuidPollMaxAttempts * uuidPollIntervalMs

\* a poll ran out although no episode of its name ever appeared in its
\* partition
C13_Witness ==
    \E c \in Calls :
        /\ call[c].poll = "timed out"
        /\ call[c].pollsSent = uuidPollMaxAttempts
        /\ \A ep \in episodes :
               ~(ep.name = call[c].name /\ ep.group_id = call[c].target)

\* C14 as stated: with interval 10 ms and 3 attempts, the promise of a
\* creation whose episode never appears rejects between 20 ms and 30 ms after
\* the poll started.
C14_RejectsWithin20To30Ms ==
    \A c \in Calls :
        call[c].poll = "timed out" /\ episodes = {} =>
            /\ now >= (TestPollMaxAttempts - 1) * TestPollIntervalMs
            /\ now <= TestPollMaxAttempts * TestPollIntervalMs

\* C14 as amended: the promise rejects no earlier than attempts x interval
\* (30 ms) after the poll started, every pass sleeping a full interval
\* before its request.
C14_RejectsNoEarlierThanTotalWait ==
    \A c \in Calls :
        call[c].poll = "timed out" =>
            /\ call[c].attempts = TestPollMaxAttempts
            /\ now >= TestPollMaxAttempts * TestPollIntervalMs

\* the episode never appeared and the promise rejected later than 30 ms
\* after the poll started
C14_Witness ==
    \E c \in Calls :
        /\ call[c].poll = "timed out"
        /\ episodes = {}
        /\ now > TestPollMaxAttempts * TestPollIntervalMs

\* the deferred writes completed under the uuid of an episode
DeferredWritesOf(uuid) ==
    {c \in Calls : call[c].poll = "written" /\ call[c].resolved = uuid}

\* C15: over the lifetime of a stored fragment its relationships are
\* written exactly once, by the deferred write; in particular no fragment
\* has them written by two deferred writes.
C15_NeverWrittenTwice ==
    \A ep \in episodes : Cardinality(DeferredWritesOf(ep.uuid)) <= 1

\* C15 for the fragments whose name no other store submitted to the
\* partition and whose store's poll and write did not fail
C15_UniqueNameOnce ==
    \A ep \in episodes :
        ~SameNameStore(ep.sub) =>
            /\ Cardinality(DeferredWritesOf(ep.uuid)) <= 1
            /\ call[ep.sub].poll = "written" => DeferredWritesOf(ep.uuid) = {ep.sub}

MembershipWrites ==
    {w \in WriteIds : writes[w].site \in {"start", "ensure"}}

C6_OrphanInWritablePartitionIsDeleted ==
    /\ forget.pc = "done"
    /\ forget.result # "threw"
    /\ forget.orphan /\ forget.found /\ forget.contribute
    => /\ forget.result = "deleted"
       /\ forget.deleteSent

\* C7: a forget of a fragment whose relationships name a creator other
\* than the requester, and not the requester, is declined and sends no
\* delete_episode, whether or not the requester holds contribute on the
\* fragment's partition.
C7_OtherCreatorsFragmentIsKept ==
    forget.otherCreator /\ ~forget.creator =>
        /\ forget.allowed = "no"
        /\ forget.result = "denied"
        /\ ~forget.deleteSent

\* a member of the fragment's partition was declined the deletion of a
\* fragment another subject created
C7_Witness ==
    /\ forget.pc = "done" /\ forget.result = "denied"
    /\ forget.otherCreator /\ ~forget.creator
    /\ forget.found /\ forget.contribute

\* C8: a forget of a fragment that has no relationship at all and whose id
\* is not that of an episode in any partition the requester can access is
\* declined and sends no delete_episode.
C8_UnlocatableOrphanIsKept ==
    forget.allowed # "none" /\ forget.orphan /\ ~forget.found =>
        /\ forget.allowed = "no"
        /\ forget.result = "denied"
        /\ ~forget.deleteSent

\* the id of an existing episode without relationships, in a partition the
\* requester cannot access, was declined
C8_Witness ==
    /\ forget.pc = "done" /\ forget.result = "denied"
    /\ forget.orphan /\ ~forget.found
    /\ \E ep \in episodes : ep.uuid = forget.episode_id

\* C9: the fragment-level delete check comes back true only for a subject
\* recorded as shared_by of the fragment; a member of the fragment's
\* partition or an involved subject who is not the creator gets false.
C9_DeleteOnlyForSharedBy ==
    /\ forget.allowed = "yes" => forget.creator
    /\ forget.allowed # "none" /\ ~forget.creator => forget.allowed = "no"

\* an involved subject who can view the fragment was refused its deletion
C9_Witness ==
    /\ forget.allowed = "no"
    /\ forget.involved /\ ~forget.creator
    /\ checkPermission(rels, "memory_fragment", forget.episode_id, "view",
                       forget.subject)

\* C19: after a forget that deleted the fragment and whose relationship
\* cleanup went through, the engine holds no relationship naming the
\* fragment, whichever partition it was stored in and whoever created it.
C19_NoRelationshipLeftAfterForget ==
    /\ forget.pc = "done"
    /\ forget.result = "deleted"
    /\ "cleanup failed" \notin forget.warns
    => RelsOf(rels, forget.episode_id) = {}

\* the relationships the cleanup of a forget does remove
C19_CleanupRemovesItsTwoTuples ==
    /\ forget.pc = "done"
    /\ forget.result = "deleted"
    /\ "cleanup failed" \notin forget.warns
    => deleteFragmentRelationships(forget.episode_id, defaultGroupId, forget.subject)
           \cap rels = {}

\* ------------------------------------------------------------------------
\* Properties of session partitions (specification SpecSessions)
\* ------------------------------------------------------------------------
\* the partitions of the sessions the hosts run
SessionGroups ==
    {sessionGroupId(k) : k \in UNION {SessionKeysOf(s) : s \in Procs}}

\* the subjects that are members of a partition
MembersOf(g) ==
    {s \in Procs : Tuple("group", g, "member", s.type, s.id) \in rels}

\* the subjects whose add_memory Graphiti accepted into a partition
StoredBy(g) ==
    {call[q.sub].subject : q \in {x \in queued : x.group_id = g}}
    \cup {call[ep.sub].subject : ep \in {x \in episodes : x.group_id = g}}

\* the subjects with a session whose partition is g
SessionOwners(g) ==
    {s \in Procs : \E k \in SessionKeysOf(s) : sessionGroupId(k) = g}

\* C20: nobody being added to a session partition explicitly, a session
\* partition has no member and no stored fragment of a subject other than
\* the one that created it: at most one subject is a member of it or has
\* a fragment in it.
C20_SessionPartitionStaysWithCreator ==
    \A g \in SessionGroups : Cardinality(MembersOf(g) \cup StoredBy(g)) <= 1

\* C20 for the session partitions that the session keys of one subject
\* only map to
C20_UncontestedPartition ==
    \A g \in SessionGroups :
        Cardinality(SessionOwners(g)) = 1 =>
            MembersOf(g) \cup StoredBy(g) \subseteq SessionOwners(g)

\* ------------------------------------------------------------------------
\* memory_recall: scope filter, per-scope search, session deduplication
\* ------------------------------------------------------------------------
MaxLimit == 2

RecallScopes == {"session", "long-term", "all"}
RecallLimits == 0..MaxLimit

\* the partitions of the recall runs: the default group and Pi's session group
RecallSessionKey == <<"a", ":">>
RecallGroups == {defaultGroupId, sessionGroupId(RecallSessionKey)}

\* what Graphiti holds: entity 1 was extracted in both partitions
RecallGraph ==
    {GraphItem("node", 1, defaultGroupId, CreatedAt(-1, 0), TRUE),
     GraphItem("fact", 2, defaultGroupId, CreatedAt(-2, 0), TRUE),
     GraphItem("node", 1, sessionGroupId(RecallSessionKey), CreatedAt(-2, 0), TRUE),
     GraphItem("fact", 3, sessionGroupId(RecallSessionKey), CreatedAt(0, 0), TRUE)}

\* the orders in which a set can be listed
Orderings(S) ==
    {f \in [1..Cardinality(S) -> S] : \A i, j \in 1..Cardinality(S) : f[i] = f[j] => i = j}

\* search_nodes / search_memory_facts with group_ids [g]: Graphiti answers
\* with matching items of that group only
GraphAnswers(graph, promise) ==
    LET matching == {x \in graph : x.group_id = promise.group_id /\ x.kind = promise.kind}
    IN  UNION {Orderings(m) : m \in SUBSET matching}

longTermGroupsOf_DefaultGroup(scope, authorizedGroups) ==
    IF scope = "session" THEN <<>>
    ELSE LET filtered == SelectSeq(authorizedGroups, LAMBDA g : ~isSessionGroup(g))
         IN  IF \A i \in 1..Len(filtered) : filtered[i] # defaultGroupId
             THEN Append(filtered, defaultGroupId)
             ELSE filtered

longTermGroupsOf(scope, authorizedGroups) ==
    IF scope = "session" THEN <<>>
    ELSE SelectSeq(authorizedGroups, LAMBDA g : ~isSessionGroup(g))

sessionGroupsOf_EveryScope(scope, authorizedGroups, sessionId) ==
    SelectSeq(authorizedGroups, isSessionGroup)

sessionGroupsOf(scope, authorizedGroups, sessionId) ==
    IF scope = "long-term" THEN <<>>
    ELSE LET filtered == SelectSeq(authorizedGroups, isSessionGroup)
             sg == sessionGroupId(sessionId)
         IN  IF sessionId # None /\ \A i \in 1..Len(filtered) : filtered[i] # sg
             THEN Append(filtered, sg)
             ELSE filtered

AllSettled(promises) == \A i \in 1..Len(promises) : promises[i].status # "pending"

RecallStart(scope, limit) ==
    /\ recall.pc = "idle"
    /\ recall' = [recall EXCEPT !.pc = "lookup", !.scope = scope, !.limit = limit,
                                !.graph = RecallGraph]
    /\ UNCHANGED <<procVars, spiceVars, graphVars, now, call, forget, forgets, tokenVars, search, mcp, bulk>>

RecallLookupFails ==
    /\ recall.pc = "lookup"
    /\ recall' = [recall EXCEPT !.pc = "done", !.outcome = "threw"]
    /\ UNCHANGED <<procVars, spiceVars, graphVars, now, call, forget, forgets, tokenVars, search, mcp, bulk>>

RecallLookupSettles(authorizedGroups) ==
    /\ recall.pc = "lookup"
    /\ authorizedGroups \in Orderings(lookupResources(rels, "access", Pi))
    /\ LET longTermGroups == longTermGroupsOf(recall.scope, authorizedGroups)
           sessionGroups == sessionGroupsOf(recall.scope, authorizedGroups,
                                            currentSessionId[Pi])
       IN  recall' =
             IF authorizedGroups = <<>>
             THEN [recall EXCEPT !.pc = "done", !.outcome = "no groups"]
             ELSE [recall EXCEPT !.pc = "searching",
                                 !.authorizedGroups = authorizedGroups,
                                 !.longTermGroups = longTermGroups,
                                 !.sessionGroups = sessionGroups,
                                 !.longTerm = SearchPromises(longTermGroups),
                                 !.session = SearchPromises(sessionGroups),
                                 !.searched = {longTermGroups[i] : i \in 1..Len(longTermGroups)}
                                     \cup {sessionGroups[i] : i \in 1..Len(sessionGroups)}]
    /\ UNCHANGED <<procVars, spiceVars, graphVars, now, call, forget, forgets, tokenVars, search, mcp, bulk>>

RecallLongTermSettles(i, ok, answer) ==
    /\ recall.pc = "searching"
    /\ i \in 1..Len(recall.longTerm)
    /\ recall.longTerm[i].status = "pending"
    /\ answer \in GraphAnswers(recall.graph, recall.longTerm[i])
    /\ recall' = [recall EXCEPT !.longTerm[i] =
           IF ok THEN [@ EXCEPT !.status = "fulfilled",
                                !.value = toResults(recall.longTerm[i].kind, answer, now)]
           ELSE [@ EXCEPT !.status = "rejected"]]
    /\ UNCHANGED <<procVars, spiceVars, graphVars, now, call, forget, forgets, tokenVars, search, mcp, bulk>>

RecallSessionSettles(i, ok, answer) ==
    /\ recall.pc = "searching"
    /\ i \in 1..Len(recall.session)
    /\ recall.session[i].status = "pending"
    /\ answer \in GraphAnswers(recall.graph, recall.session[i])
    /\ recall' = [recall EXCEPT !.session[i] =
           IF ok THEN [@ EXCEPT !.status = "fulfilled",
                                !.value = toResults(recall.session[i].kind, answer, now)]
           ELSE [@ EXCEPT !.status = "rejected"]]
    /\ UNCHANGED <<procVars, spiceVars, graphVars, now, call, forget, forgets, tokenVars, search, mcp, bulk>>

RecallReturns ==
    /\ recall.pc = "searching"
    /\ AllSettled(recall.longTerm)
    /\ AllSettled(recall.session)
    /\ LET longTermResults == mergeResults(recall.longTerm, recall.limit).results
           rawSessionResults == mergeResults(recall.session, recall.limit).results
           sessionResults == deduplicateSessionResults(longTermResults, rawSessionResults)
       IN  recall' = [recall EXCEPT
               !.pc = "done",
               !.longTermResults = longTermResults,
               !.rawSessionResults = rawSessionResults,
               !.sessionResults = sessionResults,
               !.outcome = IF Len(longTermResults) + Len(sessionResults) = 0
                           THEN "no memories" ELSE "found"]
    /\ UNCHANGED <<procVars, spiceVars, graphVars, now, call, forget, forgets, tokenVars, search, mcp, bulk>>

NextRecall ==
    \/ before_agent_start(Pi, RecallSessionKey)
    \/ \E g \in RecallGroups : AddMember(g, Pi)
    \/ \E scope \in RecallScopes, limit \in RecallLimits : RecallStart(scope, limit)
    \/ RecallLookupFails
    \/ \E order \in Orderings(lookupResources(rels, "access", Pi)) : RecallLookupSettles(order)
    \/ \E i \in 1..Len(recall.longTerm), ok \in BOOLEAN :
           \E answer \in GraphAnswers(recall.graph, recall.longTerm[i]) :
               RecallLongTermSettles(i, ok, answer)
    \/ \E i \in 1..Len(recall.session), ok \in BOOLEAN :
           \E answer \in GraphAnswers(recall.graph, recall.session[i]) :
               RecallSessionSettles(i, ok, answer)
    \/ RecallReturns

SpecRecall == Init /\ [][NextRecall]_vars

\* everything a finished recall reported, in both sections
RecallReported ==
    {recall.longTermResults[i] : i \in 1..Len(recall.longTermResults)}
    \cup {recall.sessionResults[i] : i \in 1..Len(recall.sessionResults)}

\* C21: a recall with the long-term scope never issues a search against a
\* session partition and never returns an item stored in a session partition,
\* whatever the caller's current session is and whatever is stored there.
C21_LongTermScopeLeavesSessionsAlone ==
    recall.scope = "long-term" =>
        /\ \A g \in recall.searched : ~isSessionGroup(g)
        /\ \A i \in 1..Len(recall.session) : ~isSessionGroup(recall.session[i].group_id)
        /\ \A r \in RecallReported : ~isSessionGroup(r.group_id)

\* a long-term recall that found memories while the caller was in a session
\* whose partition it may access and which holds items
C21_Witness ==
    /\ recall.pc = "done"
    /\ recall.scope = "long-term"
    /\ recall.outcome = "found"
    /\ currentSessionId[Pi] = RecallSessionKey
    /\ \E i \in 1..Len(recall.authorizedGroups) : isSessionGroup(recall.authorizedGroups[i])
    /\ \E x \in recall.graph : isSessionGroup(x.group_id)

\* ------------------------------------------------------------------------
\* graphiti.ts: the MCP session of one GraphitiClient
\* ------------------------------------------------------------------------
\* session ids the server hands out with an initialize response (None: the
\* response has no mcp-session-id header)
SessionIdsOf(n) == {None, <<"sid", n>>}

requestHeaders_NoSession(sessionId) == {}

\* if (this.sessionId) headers["mcp-session-id"] = this.sessionId
requestHeaders(sessionId) ==
    IF sessionId # None THEN {<<"mcp-session-id", sessionId>>} ELSE {}

Request(method, headers) == [method |-> method, headers |-> headers]

\* a settled handshake promise whose awaiting calls have not resumed yet:
\* their continuations run before any other event is handled
Resuming ==
    \E c \in ToolCalls : /\ mcp.tool[c].pc = "waiting"
                         /\ mcp.outcomes[mcp.tool[c].waitsOn] # "pending"

ensureInitialized_NotMemoized(c) ==
    /\ ~Resuming
    /\ mcp.tool[c].pc = "idle"
    /\ mcp.sessionId = None
    /\ mcp.initPromise \in {"none", "pending"}
    /\ mcp' = [mcp EXCEPT
           !.initPromise = "pending",
           !.handshake = "initialize",
           !.handshakes = @ + 1,
           !.outcomes = Append(@, "pending"),
           !.requests = Append(@, Request("initialize", {})),
           !.tool[c] = [pc |-> "waiting", waitsOn |-> mcp.handshakes + 1,
                        hadSession |-> FALSE, initiated |-> TRUE]]
    /\ UNCHANGED <<procVars, spiceVars, graphVars, now, call, forget, forgets, tokenVars, search, recall, bulk>>

\* callTool -> ensureInitialized with no session and no initPromise:
\* doInitialize runs up to its first await, the initialize request is sent
ensureInitialized(c) ==
    /\ ~Resuming
    /\ mcp.tool[c].pc = "idle"
    /\ mcp.sessionId = None
    /\ mcp.initPromise = "none"
    /\ mcp' = [mcp EXCEPT
           !.initPromise = "pending",
           !.handshake = "initialize",
           !.handshakes = @ + 1,
           !.outcomes = Append(@, "pending"),
           !.requests = Append(@, Request("initialize", {})),
           !.tool[c] = [pc |-> "waiting", waitsOn |-> mcp.handshakes + 1,
                        hadSession |-> FALSE, initiated |-> TRUE]]
    /\ UNCHANGED <<procVars, spiceVars, graphVars, now, call, forget, forgets, tokenVars, search, recall, bulk>>

\* callTool -> ensureInitialized while a handshake is in flight: the call
\* awaits the memoized initPromise
JoinHandshake(c) ==
    /\ ~Resuming
    /\ mcp.tool[c].pc = "idle"
    /\ mcp.sessionId = None
    /\ mcp.initPromise = "pending"
    /\ mcp' = [mcp EXCEPT
           !.tool[c] = [pc |-> "waiting", waitsOn |-> mcp.handshakes,
                        hadSession |-> FALSE, initiated |-> FALSE]]
    /\ UNCHANGED <<procVars, spiceVars, graphVars, now, call, forget, forgets, tokenVars, search, recall, bulk>>

\* callTool -> ensureInitialized with no session and a settled initPromise
\* (the server sent no session id, or the handshake was rejected): the call
\* awaits that promise and resumes with its outcome
AwaitSettledHandshake(c) ==
    /\ ~Resuming
    /\ mcp.tool[c].pc = "idle"
    /\ mcp.sessionId = None
    /\ mcp.initPromise \in {"resolved", "rejected"}
    /\ mcp' = [mcp EXCEPT
           !.tool[c] = [pc |-> "waiting", waitsOn |-> mcp.handshakes,
                        hadSession |-> FALSE, initiated |-> FALSE]]
    /\ UNCHANGED <<procVars, spiceVars, graphVars, now, call, forget, forgets, tokenVars, search, recall, bulk>>

\* callTool on a client that has a session id: ensureInitialized returns at
\* once and the tools/call request is sent
CallOnSession(c) ==
    /\ ~Resuming
    /\ mcp.tool[c].pc = "idle"
    /\ mcp.sessionId # None
    /\ mcp' = [mcp EXCEPT
           !.requests = Append(@, Request("tools/call", requestHeaders(mcp.sessionId))),
           !.tool[c] = [pc |-> "sent", waitsOn |-> 0, hadSession |-> TRUE,
                        initiated |-> FALSE]]
    /\ UNCHANGED <<procVars, spiceVars, graphVars, now, call, forget, forgets, tokenVars, search, recall, bulk>>

\* fetch of the initialize request rejects (transport error): doInitialize
\* throws, initPromise keeps the rejected promise
InitializeFetchThrows ==
    /\ ~Resuming
    /\ mcp.handshake = "initialize"
    /\ mcp' = [mcp EXCEPT !.handshake = "failed", !.initPromise = "rejected",
                          !.outcomes[mcp.handshakes] = "rejected"]
    /\ UNCHANGED <<procVars, spiceVars, graphVars, now, call, forget, forgets, tokenVars, search, recall, bulk>>

\* the initialize response is not ok: initPromise is reset, doInitialize throws
InitializeNotOk ==
    /\ ~Resuming
    /\ mcp.handshake = "initialize"
    /\ mcp' = [mcp EXCEPT !.handshake = "failed", !.initPromise = "none",
                          !.outcomes[mcp.handshakes] = "rejected"]
    /\ UNCHANGED <<procVars, spiceVars, graphVars, now, call, forget, forgets, tokenVars, search, recall, bulk>>

\* the initialize response is ok: the session id is taken from its header
InitializeOk(sid) ==
    /\ ~Resuming
    /\ mcp.handshake = "initialize"
    /\ mcp' = [mcp EXCEPT !.handshake = "parsing", !.sessionId = sid,
                          !.answered = TRUE, !.returned = sid]
    /\ UNCHANGED <<procVars, spiceVars, graphVars, now, call, forget, forgets, tokenVars, search, recall, bulk>>

\* parseSseResponse finds no JSON-RPC message in the body and throws
InitializeBodyUnreadable ==
    /\ ~Resuming
    /\ mcp.handshake = "parsing"
    /\ mcp' = [mcp EXCEPT !.handshake = "failed", !.initPromise = "rejected",
                          !.outcomes[mcp.handshakes] = "rejected"]
    /\ UNCHANGED <<procVars, spiceVars, graphVars, now, call, forget, forgets, tokenVars, search, recall, bulk>>

\* the body is consumed: notifications/initialized is sent
SendInitialized ==
    /\ ~Resuming
    /\ mcp.handshake = "parsing"
    /\ mcp' = [mcp EXCEPT
           !.handshake = "notify",
           !.requests = Append(@, Request("notifications/initialized",
                                          requestHeaders(mcp.sessionId)))]
    /\ UNCHANGED <<procVars, spiceVars, graphVars, now, call, forget, forgets, tokenVars, search, recall, bulk>>

\* the notification's fetch settles: doInitialize returns, or throws on a
\* transport error (the response itself is not inspected)
InitializedSettles(ok) ==
    /\ ~Resuming
    /\ mcp.handshake = "notify"
    /\ mcp' = [mcp EXCEPT
           !.handshake = IF ok THEN "done" ELSE "failed",
           !.initPromise = IF ok THEN "resolved" ELSE "rejected",
           !.outcomes[mcp.handshakes] = IF ok THEN "resolved" ELSE "rejected"]
    /\ UNCHANGED <<procVars, spiceVars, graphVars, now, call, forget, forgets, tokenVars, search, recall, bulk>>

\* a call resumes after the promise it awaited resolved: tools/call is sent
ResumeCall(c) ==
    /\ mcp.tool[c].pc = "waiting"
    /\ mcp.outcomes[mcp.tool[c].waitsOn] = "resolved"
    /\ mcp' = [mcp EXCEPT
           !.requests = Append(@, Request("tools/call", requestHeaders(mcp.sessionId))),
           !.tool[c].pc = "sent"]
    /\ UNCHANGED <<procVars, spiceVars, graphVars, now, call, forget, forgets, tokenVars, search, recall, bulk>>

\* a call resumes after the promise it awaited rejected: callTool throws
RejectCall(c) ==
    /\ mcp.tool[c].pc = "waiting"
    /\ mcp.outcomes[mcp.tool[c].waitsOn] = "rejected"
    /\ mcp' = [mcp EXCEPT !.tool[c].pc = "failed"]
    /\ UNCHANGED <<procVars, spiceVars, graphVars, now, call, forget, forgets, tokenVars, search, recall, bulk>>

\* the tools/call response: a result, or a status / JSON-RPC error
ToolResponds(c, ok) ==
    /\ ~Resuming
    /\ mcp.tool[c].pc = "sent"
    /\ mcp' = [mcp EXCEPT !.tool[c].pc = IF ok THEN "done" ELSE "failed"]
    /\ UNCHANGED <<procVars, spiceVars, graphVars, now, call, forget, forgets, tokenVars, search, recall, bulk>>

NextMcp ==
    \/ \E c \in ToolCalls : ensureInitialized(c)
    \/ \E c \in ToolCalls : JoinHandshake(c)
    \/ \E c \in ToolCalls : AwaitSettledHandshake(c)
    \/ \E c \in ToolCalls : CallOnSession(c)
    \/ InitializeFetchThrows
    \/ InitializeNotOk
    \/ \E sid \in SessionIdsOf(mcp.handshakes) : InitializeOk(sid)
    \/ InitializeBodyUnreadable
    \/ SendInitialized
    \/ \E ok \in BOOLEAN : InitializedSettles(ok)
    \/ \E c \in ToolCalls : ResumeCall(c)
    \/ \E c \in ToolCalls : RejectCall(c)
    \/ \E c \in ToolCalls, ok \in BOOLEAN : ToolResponds(c, ok)

SpecMcp == Init /\ [][NextMcp]_vars

\* the calls that started while the client had no session id
FirstCalls == {c \in ToolCalls : mcp.tool[c].pc # "idle" /\ ~mcp.tool[c].hadSession}

InitializeRequests ==
    {i \in 1..Len(mcp.requests) : mcp.requests[i].method = "initialize"}

\* C22 (as stated): tool calls that start on a client with no session yet
\* cause exactly one initialize request and all wait for the same handshake.
C22_OneInitializeForAllFirstCalls ==
    FirstCalls # {} =>
        /\ Cardinality(InitializeRequests) = 1
        /\ \A c, d \in FirstCalls : mcp.tool[c].waitsOn = mcp.tool[d].waitsOn

\* C22 (amended): at most one handshake is in flight; every initialize
\* request is sent by exactly one call, and only when no earlier handshake is
\* pending; calls that start while a handshake is in flight wait for it.
C22_OneHandshakeInFlight ==
    /\ Cardinality(InitializeRequests) = mcp.handshakes
    /\ \A n \in 1..(mcp.handshakes - 1) : mcp.outcomes[n] = "rejected"
    /\ \A n \in 1..mcp.handshakes :
           Cardinality({c \in ToolCalls : mcp.tool[c].initiated /\ mcp.tool[c].waitsOn = n}) = 1
    /\ \A c \in FirstCalls : mcp.tool[c].waitsOn \in 1..mcp.handshakes
    /\ \A c, d \in FirstCalls :
           /\ mcp.outcomes[mcp.tool[c].waitsOn] = "pending"
           /\ mcp.outcomes[mcp.tool[d].waitsOn] = "pending"
           => mcp.tool[c].waitsOn = mcp.tool[d].waitsOn

\* three calls started before the session existed, one initialize was sent,
\* and all three went on after that one handshake
C22_Witness ==
    /\ FirstCalls = ToolCalls
    /\ Cardinality(InitializeRequests) = 1
    /\ \A c \in ToolCalls : mcp.tool[c].pc = "sent" /\ mcp.tool[c].waitsOn = 1
    /\ Cardinality({c \in ToolCalls : mcp.tool[c].initiated}) = 1

\* the requests that follow an initialize response
SessionRequests ==
    {i \in 1..Len(mcp.requests) : mcp.requests[i].method # "initialize"}

\* C23: every request sent after the initialize response (the
\* notifications/initialized and each tools/call) carries the session id that
\* response returned.
C23_RequestsCarryReturnedSessionId ==
    /\ SessionRequests # {} => mcp.answered
    /\ mcp.returned # None =>
           \A i \in SessionRequests :
               mcp.requests[i].headers = {<<"mcp-session-id", mcp.returned>>}

\* a handshake answered with a session id, after which the notification, the
\* calls that awaited it and a call that started later were all sent
C23_Witness ==
    /\ mcp.returned # None
    /\ \E i \in SessionRequests : mcp.requests[i].method = "notifications/initialized"
    /\ \E c, d \in ToolCalls :
           /\ mcp.tool[c].pc = "sent" /\ ~mcp.tool[c].hadSession
           /\ mcp.tool[d].pc = "sent" /\ mcp.tool[d].hadSession

\* ------------------------------------------------------------------------
\* searchAuthorizedMemories over arbitrary server answers
\* ------------------------------------------------------------------------
MaxUuid == 2
MaxHits == 1

\* groupIds arguments: the authorized groups of the caller, in any order
SearchGroupIds == UNION {Orderings(gs) : gs \in SUBSET RecallGroups}

\* creation times the server reports: past instants, one of them written
\* with a zone offset (local 0, two units ahead of UTC: the instant -2)
CreatedAts == {CreatedAt(-2, 0), CreatedAt(-1, 0), CreatedAt(0, 2)}

\* what the server may answer to one request: any nodes (created_at may be
\* null) or facts, under any uuid
SearchItems(promise) ==
    {GraphItem(promise.kind, u, promise.group_id, c, TRUE) :
        u \in 1..MaxUuid, c \in CreatedAts}
    \cup {GraphItem(promise.kind, u, promise.group_id, CreatedAt(0, 0), FALSE) :
        u \in {v \in 1..MaxUuid : promise.kind = "node"}}

SearchAnswers(promise) ==
    UNION {[1..n -> SearchItems(promise)] : n \in 0..MaxHits}

\* groupIds.length === 0: return [] without a request
SearchNothing(limit) ==
    /\ search.pc = "idle"
    /\ search' = [search EXCEPT !.pc = "done", !.limit = limit]
    /\ UNCHANGED <<procVars, spiceVars, graphVars, now, call, forget, forgets, tokenVars, recall, mcp, bulk>>

SearchStart(groupIds, limit) ==
    /\ search.pc = "idle"
    /\ groupIds # <<>>
    /\ search' = [search EXCEPT !.pc = "searching", !.groupIds = groupIds,
                                !.limit = limit,
                                !.promises = SearchPromises(groupIds)]
    /\ UNCHANGED <<procVars, spiceVars, graphVars, now, call, forget, forgets, tokenVars, recall, mcp, bulk>>

SearchFulfils(i, answer) ==
    /\ search.pc = "searching"
    /\ search.promises[i].status = "pending"
    /\ search' = [search EXCEPT !.promises[i] =
           [@ EXCEPT !.status = "fulfilled",
                     !.value = toResults(search.promises[i].kind, answer, now)]]
    /\ UNCHANGED <<procVars, spiceVars, graphVars, now, call, forget, forgets, tokenVars, recall, mcp, bulk>>

SearchRejects(i) ==
    /\ search.pc = "searching"
    /\ search.promises[i].status = "pending"
    /\ search' = [search EXCEPT !.promises[i].status = "rejected"]
    /\ UNCHANGED <<procVars, spiceVars, graphVars, now, call, forget, forgets, tokenVars, recall, mcp, bulk>>

SearchReturns ==
    /\ search.pc = "searching"
    /\ AllSettled(search.promises)
    /\ LET merged == mergeResults(search.promises, search.limit)
       IN  search' = [search EXCEPT !.pc = "done", !.threw = merged.threw,
                                    !.results = merged.results]
    /\ UNCHANGED <<procVars, spiceVars, graphVars, now, call, forget, forgets, tokenVars, recall, mcp, bulk>>

NextSearch ==
    \/ \E limit \in RecallLimits : SearchNothing(limit)
    \/ \E groupIds \in SearchGroupIds, limit \in RecallLimits : SearchStart(groupIds, limit)
    \/ \E i \in 1..Len(search.promises) :
           \E answer \in SearchAnswers(search.promises[i]) : SearchFulfils(i, answer)
    \/ \E i \in 1..Len(search.promises) : SearchRejects(i)
    \/ SearchReturns

SpecSearch == Init /\ [][NextSearch]_vars

\* the results of the fulfilled requests, in promise order
SearchFulfilled == FlattenFulfilled(search.promises)

Uuids(results) == {results[i].uuid : i \in 1..Len(results)}

\* C24: no two elements of a result set share an identifier, whatever the
\* partitions searched and the order in which the requests complete.
C24_NoDuplicateIdentifiers ==
    search.pc = "done" =>
        \A i, j \in 1..Len(search.results) :
            search.results[i].uuid = search.results[j].uuid => i = j

\* two requests of different partitions answered with the same identifier,
\* which is returned
C24_Witness ==
    /\ search.pc = "done"
    /\ \E i, j \in 1..Len(search.promises) :
           /\ search.promises[i].group_id # search.promises[j].group_id
           /\ Uuids(search.promises[i].value) \cap Uuids(search.promises[j].value)
                  \cap Uuids(search.results) # {}

\* C25: for any element A that comes before an element B in a result set,
\* A's creation time is not earlier than B's.
C25_NewestFirst ==
    search.pc = "done" =>
        \A i, j \in 1..Len(search.results) :
            i < j => getTime(search.results[i].created_at)
                         >= getTime(search.results[j].created_at)

\* a result set of two elements of different instants, the newer one
\* answered by a later request than the older one, one of them written with
\* a zone offset
C25_Witness ==
    /\ search.pc = "done"
    /\ Len(search.results) = 2
    /\ getTime(search.results[1].created_at) > getTime(search.results[2].created_at)
    /\ search.results[2].uuid = SearchFulfilled[1].uuid
    /\ \E i \in 1..2 : search.results[i].created_at.offset # 0

\* the deduplicated successful results that the result set leaves out
SearchLeftOut ==
    LET deduped == dedupeByUuid(SearchFulfilled)
    IN  {deduped[i] : i \in {k \in 1..Len(deduped) :
                                deduped[k].uuid \notin Uuids(search.results)}}

\* C26: a result set has at most `limit` elements, and every deduplicated
\* successful result left out of it has a timestamp no later than that of
\* every element returned.
C26_AtMostLimitAndOldestLeftOut ==
    search.pc = "done" =>
        /\ Len(search.results) <= search.limit
        /\ \A x \in SearchLeftOut : \A i \in 1..Len(search.results) :
               getTime(x.created_at) <= getTime(search.results[i].created_at)

\* a search with limit 1 that had two distinct results of different instants
\* to choose from, the older one answered first
C26_Witness ==
    /\ search.pc = "done"
    /\ search.limit = 1
    /\ Len(search.results) = 1
    /\ \E x \in SearchLeftOut :
           /\ getTime(x.created_at) < getTime(search.results[1].created_at)
           /\ x.uuid = SearchFulfilled[1].uuid

SearchRejected == {i \in 1..Len(search.promises) : search.promises[i].status = "rejected"}

\* C27: if some per-partition requests fail and others succeed, the search
\* returns the merge of the successful ones and does not throw; if all fail,
\* it returns an empty set and does not throw.
C27_FailuresAreLeftOut ==
    search.pc = "done" =>
        /\ ~search.threw
        /\ Uuids(search.results) \subseteq Uuids(SearchFulfilled)
        /\ \/ Uuids(search.results) = Uuids(SearchFulfilled)
           \/ Len(search.results) = search.limit
        /\ Cardinality(SearchRejected) = Len(search.promises) => search.results = <<>>

\* a search in which one partition's requests both failed and the other
\* partition's results were returned
C27_Witness ==
    /\ search.pc = "done"
    /\ Len(search.groupIds) = 2
    /\ SearchRejected = {1, 2}
    /\ Len(search.results) = 2

\* C28: in a recall over both scopes no identifier appears in both the
\* long-term section and the session section; an identifier found by both
\* searches is reported once, in the long-term section.
C28_SectionsShareNoIdentifier ==
    recall.pc = "done" /\ recall.scope = "all" =>
        /\ Uuids(recall.longTermResults) \cap Uuids(recall.sessionResults) = {}
        /\ \A u \in Uuids(recall.longTermResults) \cap Uuids(recall.rawSessionResults) :
               /\ Cardinality({i \in 1..Len(recall.longTermResults) :
                                  recall.longTermResults[i].uuid = u}) = 1
               /\ u \notin Uuids(recall.sessionResults)
        /\ Uuids(recall.sessionResults) =
               Uuids(recall.rawSessionResults) \ Uuids(recall.longTermResults)

\* a recall over both scopes whose two searches both found entity 1, with
\* another session result next to it
C28_Witness ==
    /\ recall.pc = "done"
    /\ recall.scope = "all"
    /\ Uuids(recall.longTermResults) \cap Uuids(recall.rawSessionResults) # {}
    /\ recall.sessionResults # <<>>

\* ------------------------------------------------------------------------
\* GraphitiClient.addEpisode called directly, with or without a group_id
\* ------------------------------------------------------------------------
\* group_id arguments of a direct call (None: omitted)
ClientGroupIds == {None, defaultGroupId}

startsPoll_Always(group_id) == TRUE

\* if (params.group_id) resolvedUuid = this.resolveEpisodeUuid(...)
startsPoll(group_id) == group_id # None

\* addEpisode up to its await of callTool("add_memory")
addEpisode(c, group_id) ==
    /\ call[c].pc = "idle"
    /\ \A d \in Calls : d < c => call[d].pc # "idle"
    /\ call' = [call EXCEPT ![c] =
           [@ EXCEPT !.kind = "client", !.target = group_id, !.pc = "adding",
                     !.name = <<"client", c>>, !.addSent = TRUE]]
    /\ UNCHANGED <<procVars, spiceVars, graphVars, now, forget, forgets, tokenVars, engineVars>>

\* add_memory failed: addEpisode throws before any resolvedUuid exists
AddEpisodeThrows(c) ==
    /\ call[c].pc = "adding"
    /\ call[c].kind = "client"
    /\ call' = [call EXCEPT ![c] = [@ EXCEPT !.pc = "done", !.result = "threw"]]
    /\ UNCHANGED <<procVars, spiceVars, graphVars, now, forget, forgets, tokenVars, engineVars>>

\* add_memory succeeded: the episode is queued and addEpisode returns the
\* tracking uuid with resolvedUuid, polling only when a group_id was given
AddEpisodeReturns(c) ==
    /\ call[c].pc = "adding"
    /\ call[c].kind = "client"
    /\ queued' = queued \cup
           {[sub |-> c, name |-> call[c].name, group_id |-> call[c].target]}
    /\ call' = [call EXCEPT ![c] =
           [@ EXCEPT !.pc = "done", !.addOk = TRUE, !.result = "created",
                     !.episodeId = trackingUuid(c),
                     !.poll = IF startsPoll(call[c].target) THEN "polling" ELSE "resolved",
                     !.resolved = IF startsPoll(call[c].target) THEN None
                                  ELSE trackingUuid(c)]]
    /\ UNCHANGED <<procVars, spiceVars, episodes, nextUuid, now, forget, forgets, tokenVars, engineVars>>

\* one pass of resolveEpisodeUuid for a direct call: a get_episodes request
\* that finds the name resolves the promise, the last miss rejects it
ResolveEpisodeUuid(c) ==
    /\ call[c].kind = "client"
    /\ call[c].poll = "polling"
    /\ call[c].attempts < uuidPollMaxAttempts
    /\ \/ call' = [call EXCEPT ![c] =
              [@ EXCEPT !.attempts = @ + 1, !.pollsSent = @ + 1,
                        !.poll = IF call[c].attempts + 1 >= uuidPollMaxAttempts
                                 THEN "timed out" ELSE "polling"]]
       \/ \E match \in getEpisodesNamed(call[c].target, call[c].name) :
              call' = [call EXCEPT ![c] =
                  [@ EXCEPT !.pollsSent = @ + 1, !.poll = "resolved",
                            !.resolved = match.uuid]]
    /\ UNCHANGED <<procVars, spiceVars, graphVars, now, forget, forgets, tokenVars, engineVars>>

NextAddEpisode ==
    \/ \E c \in Calls, g \in ClientGroupIds : addEpisode(c, g)
    \/ \E c \in Calls : AddEpisodeThrows(c)
    \/ \E c \in Calls : AddEpisodeReturns(c)
    \/ \E q \in queued : Extract(q)
    \/ \E c \in Calls : ResolveEpisodeUuid(c)

SpecAddEpisode == Init /\ [][NextAddEpisode]_vars

\* C29: for a create call made with no partition, no poll request is ever
\* sent and the resolved-id future resolves with the placeholder identifier.
C29_NoPartitionNoPoll ==
    \A c \in Calls :
        call[c].kind = "client" /\ call[c].target = None =>
            /\ call[c].pollsSent = 0
            /\ call[c].poll \in {"none", "resolved"}
            /\ call[c].addOk =>
                   /\ call[c].poll = "resolved"
                   /\ call[c].resolved = call[c].episodeId
                   /\ call[c].episodeId = trackingUuid(c)

\* a create call without partition whose episode Graphiti has extracted
\* under a server id, next to a call with a partition that polled and
\* resolved to its server id
C29_Witness ==
    \E c, d \in Calls :
        /\ call[c].kind = "client" /\ call[c].target = None
        /\ call[c].poll = "resolved"
        /\ \E ep \in episodes : ep.sub = c
        /\ call[d].kind = "client" /\ call[d].target # None
        /\ call[d].pollsSent > 0
        /\ call[d].poll = "resolved" /\ call[d].resolved # call[d].episodeId

\* ------------------------------------------------------------------------
\* ensureGroupMembership called repeatedly
\* ------------------------------------------------------------------------
applyUpdates_Create(rs, tuples) ==
    IF tuples \cap rs # {}
    THEN [ok |-> FALSE, rels |-> rs]
    ELSE [ok |-> TRUE, rels |-> rs \cup tuples]

\* WriteRelationships with RelationshipUpdate_Operation.TOUCH: every tuple is
\* created, or left as it is when it exists already
applyUpdates(rs, tuples) == [ok |-> TRUE, rels |-> rs \cup tuples]

\* ensureGroupMembership(spicedb, groupId, member) reaches its await
EnsureMembershipCall(w, groupId, member) ==
    /\ WriteIdle(w)
    /\ writes' = [writes EXCEPT ![w] =
           SentWrite("membership", ensureGroupMembership(groupId, member))]
    /\ UNCHANGED <<procVars, spiceVars, graphVars, now, call, forget, forgets, reads, engineVars>>

\* the engine executes the write's updates: applied at a new revision, or
\* refused
MembershipWriteExecuted(w) ==
    /\ writes[w].state = "sent"
    /\ writes[w].site = "membership"
    /\ LET outcome == applyUpdates(rels, writes[w].tuples)
       IN  /\ rels' = outcome.rels
           /\ zedRevision' = IF outcome.ok THEN zedRevision + 1 ELSE zedRevision
           /\ writes' = [writes EXCEPT
                  ![w].state = IF outcome.ok THEN "applied" ELSE "failed",
                  ![w].token = IF outcome.ok THEN zedRevision + 1 ELSE 0]
    /\ UNCHANGED <<procVars, graphVars, now, call, forget, forgets, reads, engineVars>>

\* the await of writeRelationships resumes: ensureGroupMembership returns
EnsureMembershipReturns(w) ==
    /\ writes[w].state = "applied"
    /\ writes[w].site = "membership"
    /\ writes' = [writes EXCEPT ![w].state = "returned"]
    /\ UNCHANGED <<procVars, spiceVars, graphVars, now, call, forget, forgets, reads, engineVars>>

NextMembership ==
    \/ \E w \in WriteIds, g \in RecallGroups, s \in Procs : EnsureMembershipCall(w, g, s)
    \/ \E w \in WriteIds : MembershipWriteExecuted(w)
    \/ \E w \in WriteIds : EnsureMembershipReturns(w)

SpecMembership == Init /\ [][NextMembership]_vars

\* the membership calls the engine has executed
ExecutedMemberships ==
    {w \in WriteIds : writes[w].site = "membership"
                      /\ writes[w].state \in {"applied", "returned"}}

\* C30: calling ensureMembership twice for the same partition and subject
\* leaves exactly one membership relationship, and both calls succeed.
C30_EnsureMembershipIdempotent ==
    /\ \A w \in WriteIds : writes[w].site = "membership" => writes[w].state # "failed"
    /\ rels = UNION {writes[w].tuples : w \in ExecutedMemberships}
    /\ \A w \in ExecutedMemberships :
           /\ Cardinality(writes[w].tuples) = 1
           /\ \A t \in writes[w].tuples :
                  Cardinality({u \in rels : /\ u.resourceType = "group"
                                            /\ u.resourceId = t.resourceId
                                            /\ u.relation = "member"
                                            /\ u.subjectType = t.subjectType
                                            /\ u.subjectId = t.subjectId}) = 1

\* two calls for the same partition and subject, both returned
C30_Witness ==
    \E w, x \in WriteIds :
        /\ w # x
        /\ writes[w].site = "membership" /\ writes[x].site = "membership"
        /\ writes[w].tuples = writes[x].tuples
        /\ writes[w].state = "returned" /\ writes[x].state = "returned"
        /\ Cardinality(rels) = 1

\* ------------------------------------------------------------------------
\* The write wrappers of authorization.ts and the tokens they hand back
\* ------------------------------------------------------------------------
\* fragments the wrappers are called for
WrapperFragments == {<<"srv", 1>>}

writtenAtToken_Dropped(response) == 0

\* SpiceDbClient.writeRelationships: response.writtenAt?.token
\* SpiceDbClient.deleteRelationshipsByFilter: response.deletedAt?.token
writtenAtToken(response) == IF response.stamped THEN response.token ELSE 0

\* the filter {resourceType: "memory_fragment", resourceId: fragmentId}
fragmentFilter(fragmentId) == {Tuple("memory_fragment", fragmentId, "", "", <<>>)}

\* ensureGroupMembership(spicedb, groupId, currentSubject) reaches its await
WrapperEnsuresMembership(w, groupId) ==
    /\ WriteIdle(w)
    /\ writes' = [writes EXCEPT ![w] =
           SentWrite("membership", ensureGroupMembership(groupId, Pi))]
    /\ UNCHANGED <<procVars, spiceVars, graphVars, now, call, forget, forgets, reads, engineVars>>

\* writeFragmentRelationships(spicedb, {fragmentId, groupId, sharedBy}) reaches
\* its await
WrapperWritesFragment(w, fragmentId, groupId) ==
    /\ WriteIdle(w)
    /\ writes' = [writes EXCEPT ![w] =
           SentWrite("fragment", writeFragmentRelationships(fragmentId, groupId, Pi, {}))]
    /\ UNCHANGED <<procVars, spiceVars, graphVars, now, call, forget, forgets, reads, engineVars>>

\* deleteFragmentRelationships(spicedb, fragmentId) reaches its await
WrapperDeletesFragment(w, fragmentId) ==
    /\ WriteIdle(w)
    /\ writes' = [writes EXCEPT ![w] = SentWrite("delete", fragmentFilter(fragmentId))]
    /\ UNCHANGED <<procVars, spiceVars, graphVars, now, call, forget, forgets, reads, engineVars>>

\* the engine executes the request at a new revision, whose token goes into
\* the response
WrapperWriteExecuted(w) ==
    /\ writes[w].state = "sent"
    /\ writes[w].site \in {"membership", "fragment"}
    /\ rels' = applyUpdates(rels, writes[w].tuples).rels
    /\ zedRevision' = zedRevision + 1
    /\ writes' = [writes EXCEPT ![w].state = "applied", ![w].token = zedRevision + 1]
    /\ UNCHANGED <<procVars, graphVars, now, call, forget, forgets, reads, engineVars>>

WrapperDeleteExecuted(w) ==
    /\ writes[w].state = "sent"
    /\ writes[w].site = "delete"
    /\ rels' = rels \ UNION {RelsOf(rels, t.resourceId) : t \in writes[w].tuples}
    /\ zedRevision' = zedRevision + 1
    /\ writes' = [writes EXCEPT ![w].state = "applied", ![w].token = zedRevision + 1]
    /\ UNCHANGED <<procVars, graphVars, now, call, forget, forgets, reads, engineVars>>

\* the client's await resumes with the response (writtenAt / deletedAt may
\* be absent) and the wrapper returns what the client returned
WrapperReturns(w, stamped) ==
    /\ writes[w].state = "applied"
    /\ writes[w].site \in {"membership", "fragment", "delete"}
    /\ writes' = [writes EXCEPT
           ![w].state = "returned",
           ![w].stamped = stamped,
           ![w].returned = writeWrapperToken(
               writtenAtToken([stamped |-> stamped, token |-> writes[w].token]))]
    /\ UNCHANGED <<procVars, spiceVars, graphVars, now, call, forget, forgets, reads, engineVars>>

NextWrappers ==
    \/ \E w \in WriteIds, g \in TokenGroups : WrapperEnsuresMembership(w, g)
    \/ \E w \in WriteIds, f \in WrapperFragments, g \in TokenGroups :
           WrapperWritesFragment(w, f, g)
    \/ \E w \in WriteIds, f \in WrapperFragments : WrapperDeletesFragment(w, f)
    \/ \E w \in WriteIds : WrapperWriteExecuted(w)
    \/ \E w \in WriteIds : WrapperDeleteExecuted(w)
    \/ \E w \in WriteIds, stamped \in BOOLEAN : WrapperReturns(w, stamped)

SpecWrappers == Init /\ [][NextWrappers]_vars

MaxTuples == 3
MaxBatchSize == 2

\* the tuples an import is handed: per imported file its source_group or its
\* shared_by relationship
ImportTuple(k, relation) ==
    IF relation = "source_group"
    THEN Tuple("memory_fragment", <<"imp", k>>, "source_group", "group", defaultGroupId)
    ELSE Tuple("memory_fragment", <<"imp", k>>, "shared_by", Pi.type, Pi.id)

ImportLists ==
    UNION {{[k \in 1..n |-> ImportTuple(k, relation[k])] :
               relation \in [1..n -> {"source_group", "shared_by"}]} : n \in 0..MaxTuples}

\* the batch sizes of a call (the default is 1000; a batch size is positive)
BatchSizes == 1..MaxBatchSize

chunkAt_Overlapping(tuples, i, batchSize) ==
    SubSeq(tuples, i + 1,
           IF i + batchSize + 1 < Len(tuples) THEN i + batchSize + 1 ELSE Len(tuples))

\* tuples.slice(i, i + batchSize)
chunkAt(tuples, i, batchSize) ==
    SubSeq(tuples, i + 1, IF i + batchSize < Len(tuples) THEN i + batchSize ELSE Len(tuples))

RECURSIVE chunksFrom(_, _, _)
\* the chunks the loop `for (i = 0; i < tuples.length; i += batchSize)` takes
chunksFrom(tuples, i, batchSize) ==
    IF i < Len(tuples)
    THEN <<chunkAt(tuples, i, batchSize)>> \o chunksFrom(tuples, i + batchSize, batchSize)
    ELSE <<>>

\* tuples.length === 0: return 0
BulkImportEmpty(batchSize, streaming) ==
    /\ bulk.pc = "idle"
    /\ bulk' = [bulk EXCEPT !.pc = "done", !.batchSize = batchSize,
                            !.streaming = streaming, !.result = 0]
    /\ UNCHANGED <<procVars, spiceVars, graphVars, now, call, forget, forgets, tokenVars, search, recall, mcp>>

\* the streaming RPC exists: bulkImportViaStream writes every chunk to the
\* stream and ends it
BulkImportViaStream(tuples, batchSize) ==
    /\ bulk.pc = "idle"
    /\ tuples # <<>>
    /\ bulk' = [bulk EXCEPT !.pc = "streaming", !.tuples = tuples,
                            !.batchSize = batchSize, !.streaming = TRUE,
                            !.stream = chunksFrom(tuples, 0, batchSize)]
    /\ UNCHANGED <<procVars, spiceVars, graphVars, now, call, forget, forgets, tokenVars, search, recall, mcp>>

\* the stream's callback: an error rejects, a response resolves with
\* numLoaded, or with tuples.length when the response names no count
BulkStreamSettles(ok, counted) ==
    /\ bulk.pc = "streaming"
    /\ rels' = IF ok THEN rels \cup {bulk.tuples[k] : k \in 1..Len(bulk.tuples)} ELSE rels
    /\ zedRevision' = IF ok THEN zedRevision + 1 ELSE zedRevision
    /\ bulk' = [bulk EXCEPT !.pc = IF ok THEN "done" ELSE "failed",
                            \* counted: the server's numLoaded, the number of
                            \* relationships it loaded; else tuples.length
                            !.result = IF ~ok THEN 0
                                       ELSE IF counted THEN Cardinality(rels' \ rels) + Cardinality({k \in 1..Len(bulk.tuples) : bulk.tuples[k] \in rels})
                                       ELSE Len(bulk.tuples)]
    /\ UNCHANGED <<procVars, graphVars, now, call, forget, forgets, tokenVars, search, recall, mcp>>

\* no streaming RPC: bulkImportViaWrite sends its first chunk
BulkImportViaWrite(tuples, batchSize) ==
    /\ bulk.pc = "idle"
    /\ tuples # <<>>
    /\ bulk' = [bulk EXCEPT !.pc = "writing", !.tuples = tuples,
                            !.batchSize = batchSize, !.streaming = FALSE,
                            !.sent = <<chunkAt(tuples, 0, batchSize)>>]
    /\ UNCHANGED <<procVars, spiceVars, graphVars, now, call, forget, forgets, tokenVars, search, recall, mcp>>

\* the chunk's writeRelationships rejects: the import throws
BulkWriteFails ==
    /\ bulk.pc = "writing"
    /\ bulk' = [bulk EXCEPT !.pc = "failed"]
    /\ UNCHANGED <<procVars, spiceVars, graphVars, now, call, forget, forgets, tokenVars, search, recall, mcp>>

\* the chunk's writeRelationships returns: the chunk is counted and the next
\* one is sent, or the total is returned
BulkWriteSettles ==
    /\ bulk.pc = "writing"
    /\ LET chunk == bulk.sent[Len(bulk.sent)]
           i == bulk.i + bulk.batchSize
           total == bulk.total + Len(chunk)
       IN  /\ rels' = applyUpdates(rels, {chunk[k] : k \in 1..Len(chunk)}).rels
           /\ zedRevision' = zedRevision + 1
           /\ bulk' = IF i < Len(bulk.tuples)
                      THEN [bulk EXCEPT !.i = i, !.total = total,
                               !.sent = Append(@, chunkAt(bulk.tuples, i, bulk.batchSize))]
                      ELSE [bulk EXCEPT !.i = i, !.total = total, !.pc = "done",
                                        !.result = total]
    /\ UNCHANGED <<procVars, graphVars, now, call, forget, forgets, tokenVars, search, recall, mcp>>

NextBulk ==
    \/ \E b \in BatchSizes, streaming \in BOOLEAN : BulkImportEmpty(b, streaming)
    \/ \E tuples \in ImportLists, b \in BatchSizes : BulkImportViaStream(tuples, b)
    \/ \E ok, counted \in BOOLEAN : BulkStreamSettles(ok, counted)
    \/ \E tuples \in ImportLists, b \in BatchSizes : BulkImportViaWrite(tuples, b)
    \/ BulkWriteFails
    \/ BulkWriteSettles

SpecBulk == Init /\ [][NextBulk]_vars

\* how many of the chunks passed to writeRelationships hold a tuple
TimesWritten(t) ==
    Cardinality({<<c, k>> \in (1..Len(bulk.sent)) \X (1..MaxBatchSize + 1) :
                    k <= Len(bulk.sent[c]) /\ bulk.sent[c][k] = t})

\* C32: a bulk import uses the streaming RPC when it is available and
\* otherwise sequential writes of at most batchSize tuples each; on the
\* fallback path every tuple is written exactly once and the returned count
\* is N; an empty input returns 0 without any RPC.
C32_BulkImport ==
    /\ bulk.streaming => bulk.sent = <<>>
    /\ ~bulk.streaming => bulk.stream = <<>>
    /\ bulk.pc # "idle" /\ bulk.tuples = <<>> =>
           /\ bulk.pc = "done" /\ bulk.result = 0
           /\ bulk.sent = <<>> /\ bulk.stream = <<>>
           /\ zedRevision = 0
    /\ \A c \in 1..Len(bulk.sent) : Len(bulk.sent[c]) \in 1..bulk.batchSize
    /\ \A c \in 1..Len(bulk.stream) : Len(bulk.stream[c]) \in 1..bulk.batchSize
    /\ \A k \in 1..Len(bulk.tuples) : ~bulk.streaming => TimesWritten(bulk.tuples[k]) <= 1
    /\ bulk.pc = "done" /\ ~bulk.streaming =>
           /\ \A k \in 1..Len(bulk.tuples) : TimesWritten(bulk.tuples[k]) = 1
           /\ \A k \in 1..Len(bulk.tuples) : bulk.tuples[k] \in rels
           /\ bulk.result = Len(bulk.tuples)
           /\ zedRevision = Len(bulk.sent)

\* three tuples imported over the fallback path with batch size 2: a write
\* of two and a write of one
C32_Witness ==
    /\ bulk.pc = "done"
    /\ ~bulk.streaming
    /\ Len(bulk.tuples) = 3
    /\ bulk.batchSize = 2
    /\ Len(bulk.sent) = 2
    /\ bulk.result = 3

\* ------------------------------------------------------------------------
\* graphiti.ts: tool calls and the handshake's second request
\* ------------------------------------------------------------------------
ToolCallRequests ==
    {i \in 1..Len(mcp.requests) : mcp.requests[i].method = "tools/call"}

\* C33: no tools/call request is sent before the handshake's
\* notifications/initialized request has been sent, for any interleaving of
\* tool calls started while the handshake is in flight.
C33_NoToolCallBeforeInitialized ==
    \A i \in ToolCallRequests :
        \E j \in 1..(i - 1) : mcp.requests[j].method = "notifications/initialized"

\* the calls that awaited the handshake promise do send only after the
\* notification: the early tools/call comes from a call that found the
\* session id already set
C33_WaitingCallsSendAfterInitialized ==
    \A c \in ToolCalls :
        mcp.tool[c].pc \in {"sent", "done"} /\ ~mcp.tool[c].hadSession =>
            \E j \in 1..Len(mcp.requests) :
                mcp.requests[j].method = "notifications/initialized"

\* ------------------------------------------------------------------------
\* graphiti.ts: resolveEpisodeUuid under concurrent creations
\* ------------------------------------------------------------------------
\* C34: for any two distinct creations in the same partition, their
\* resolved-id promises never resolve to the same server-assigned id, even
\* when both were submitted with the same name.
C34_DistinctCreationsResolveApart ==
    \A c, d \in Calls :
        /\ c # d
        /\ call[c].target = call[d].target
        /\ call[c].resolved # None
        /\ call[d].resolved # None
        => call[c].resolved # call[d].resolved

\* creations whose names differ do resolve apart, each to its own episode
C34_DistinctNamesResolveApart ==
    \A c, d \in Calls :
        /\ c # d
        /\ call[c].target = call[d].target
        /\ call[c].resolved # None
        /\ call[d].resolved # None
        /\ call[c].name # call[d].name
        => call[c].resolved # call[d].resolved

\* ------------------------------------------------------------------------
\* memory_forget beside concurrent stores
\* ------------------------------------------------------------------------
\* One agent process: two stores of explicit memories and a forget of a
\* fragment one of them created.
NextForgetRace ==
    \/ \E k \in SessionKeys : before_agent_start(Pi, k)
    \/ \E q \in queued : Extract(q)
    \/ \E c \in Calls, g \in GroupIdArgs, lt \in BOOLEAN, inv \in InvolvesArgs :
           memory_store(c, Pi, g, lt, inv)
    \/ \E c \in Calls : StoreMembershipSettles(c)
    \/ \E c \in Calls : StoreCheckSettles(c)
    \/ \E c \in Calls : AddMemorySettles(c)
    \/ \E c \in Calls : PollEpisodes(c)
    \/ \E c \in Calls : DeferredWriteSettles(c)
    \/ \E id \in KnownIds : memory_forget(Pi, id)
    \/ ForgetCheckSettles
    \/ ForgetDeleteSettles
    \/ ForgetCleanupSettles

SpecForgetRace == Init /\ [][NextForgetRace]_vars

ForgetSucceeded == forget.pc = "done" /\ forget.result = "deleted"

\* C35: once a forget of a fragment has succeeded, no authorization
\* relationship naming that fragment is written afterwards, even if a
\* deferred authorization write for it was still pending when the fragment
\* was deleted.
C35_NoWriteAfterForget ==
    [][ForgetSucceeded =>
           RelsOf(rels', forget.episode_id) \subseteq RelsOf(rels, forget.episode_id)]_vars

\* as long as no two stores submitted the same name to a partition, nothing
\* is written for a fragment after its forget succeeded
C35_UniqueNamesNoWriteAfterForget ==
    [][ForgetSucceeded /\ (\A c \in Calls : ~SameNameStore(c)) =>
           RelsOf(rels', forget.episode_id) \subseteq RelsOf(rels, forget.episode_id)]_vars

Returning(w) ==
    writes[w].state = "applied" /\ writes'[w].state = "returned"

C37_NoStoreWithoutMembership ==
    \A c \in Calls :
        call[c].isOwn /\ call[c].addSent => call[c].ensured = "ok"

\* C37 (amended): a store to the caller's own session partition sends
\* add_memory only after the membership write has settled; a membership
\* write that fails is caught (memory_store logs a warning) and the store
\* goes on to send add_memory all the same.
C37_StoreGoesOnAfterMembershipSettled ==
    \A c \in Calls :
        call[c].isOwn =>
            /\ call[c].addSent => call[c].ensured \in {"ok", "failed"}
            /\ call[c].ensured = "ok" =>
                   ensureGroupMembership(call[c].target, call[c].subject) \subseteq rels
            /\ call[c].ensured # "none" =>
                   /\ call[c].addSent
                   /\ call[c].allowed = "none"
            /\ call[c].ensured = "failed" /\ call[c].kind = "memory" =>
                   "membership" \in call[c].warns
            /\ call[c].pc = "ensuring" => ~call[c].addSent /\ call[c].ensured = "none"

\* a store whose membership write failed has been accepted by add_memory and
\* its episode is in the graph
C37_Witness ==
    \E c \in Calls :
        /\ call[c].isOwn
        /\ call[c].ensured = "failed"
        /\ call[c].result = "created"
        /\ \E ep \in episodes : ep.sub = c /\ ep.group_id = call[c].target

\* ------------------------------------------------------------------------
\* graphiti.ts: tool calls after a failed handshake
\* ------------------------------------------------------------------------
\* the last handshake attempt failed at its initialize request: the fetch
\* rejected or the response was not ok
InitializeFailed == mcp.handshake = "failed" /\ ~mcp.answered

\* the tool call that starts in this step
Starting(c) == mcp.tool[c].pc = "idle" /\ mcp'.tool[c].pc # "idle"

\* C38: after a handshake attempt fails, through a non-success status or a
\* transport-level failure of the initialize request, the next tool call
\* starts a fresh handshake instead of failing with the memoized failure.
C38_FreshHandshakeAfterFailure ==
    [][\A c \in ToolCalls :
           InitializeFailed /\ Starting(c) =>
               /\ mcp'.tool[c].initiated
               /\ mcp'.handshakes = mcp.handshakes + 1
               /\ mcp'.outcomes[mcp'.tool[c].waitsOn] = "pending"]_vars

\* after a non-success status the next call does start a fresh handshake
C38_FreshHandshakeAfterStatus ==
    [][\A c \in ToolCalls :
           InitializeFailed /\ mcp.initPromise = "none" /\ Starting(c) =>
               /\ mcp'.tool[c].initiated
               /\ mcp'.handshakes = mcp.handshakes + 1]_vars

\* after a transport failure every later call awaits the rejected promise of
\* the failed attempt and no further initialize is sent
C38_TransportFailureIsMemoized ==
    [][\A c \in ToolCalls :
           InitializeFailed /\ mcp.initPromise = "rejected" /\ Starting(c) =>
               /\ ~mcp'.tool[c].initiated
               /\ mcp'.requests = mcp.requests
               /\ mcp'.outcomes[mcp'.tool[c].waitsOn] = "rejected"]_vars

\* ------------------------------------------------------------------------
\* The partitions a recall searches (specification SpecRecall)
\* ------------------------------------------------------------------------
\* the group_ids of the search requests the recall has issued
SearchedPartitions ==
    {recall.longTerm[i].group_id : i \in 1..Len(recall.longTerm)}
    \cup {recall.session[i].group_id : i \in 1..Len(recall.session)}

AuthorizedPartitions ==
    {recall.authorizedGroups[i] : i \in 1..Len(recall.authorizedGroups)}

\* C39: every knowledge-graph search issued by a recall targets a partition
\* that is in the result of the authorized-partition lookup for the
\* requesting subject or is the session partition of the subject's own
\* current session.
C39_SearchesOnlyAuthorizedOrOwnSession ==
    \A g \in SearchedPartitions :
        \/ g \in AuthorizedPartitions
        \/ /\ currentSessionId[Pi] # None
           /\ g = sessionGroupId(currentSessionId[Pi])

\* a recall searched its own session partition, which the lookup had not
\* listed, beside a partition the lookup had listed
C39_Witness ==
    /\ recall.pc \in {"searching", "done"}
    /\ currentSessionId[Pi] # None
    /\ sessionGroupId(currentSessionId[Pi]) \in SearchedPartitions \ AuthorizedPartitions
    /\ SearchedPartitions \cap AuthorizedPartitions # {}

\* ------------------------------------------------------------------------
\* A store whose add_memory request fails
\* ------------------------------------------------------------------------
\* the stores whose add_memory request failed
AddMemoryFailed ==
    {c \in Calls : call[c].addSent /\ ~call[c].addOk /\ call[c].pc = "done"}

\* the fragment relationships the engine holds that no completed deferred
\* write of a store in S accounts for
FragmentRelsNotOf(S) ==
    {t \in rels : /\ t.resourceType = "memory_fragment"
                  /\ \A d \in S : ~(call[d].poll = "written" /\ call[d].resolved = t.resourceId)}

\* C40: if the add_memory request fails, the store fails with that error
\* (memory_store throws it, the agent_end hook logs it as a failed capture),
\* no reconciliation poll is started and no authorization relationship is
\* written for that store.
C40_FailedAddWritesNothing ==
    /\ \A c \in AddMemoryFailed :
           /\ call[c].result = IF call[c].kind = "memory" THEN "threw" ELSE "capture failed"
           /\ call[c].episodeId = None
           /\ call[c].poll = "none"
           /\ call[c].pollsSent = 0
           /\ call[c].attempts = 0
           /\ call[c].resolved = None
           /\ \A q \in queued : q.sub # c
           /\ \A ep \in episodes : ep.sub # c
    /\ FragmentRelsNotOf(Calls \ AddMemoryFailed) = {}

\* one store's add_memory failed while another store's succeeded and had its
\* relationships written
C40_Witness ==
    \E c \in AddMemoryFailed, d \in Calls :
        /\ call[c].result = "threw"
        /\ call[d].poll = "written"
        /\ RelsOf(rels, call[d].resolved) # {}
====
